---- MODULE Spec2Model ----
(***************************************************************************)
(* The asynchronous job-and-progress subsystem of asin-manager:           *)
(*   - processing.service.ts  (HTTP process: start / cancel / status)     *)
(*   - asinProcessor.worker.ts (worker process: processAsinJob)           *)
(*   - amazonApi.ts           (checkAsinEligibility)                      *)
(*   - import.service.ts      (startCSVImport / processCSVImport)         *)
(*                                                                         *)
(* Every `await` of the source is a suspension point: a handler is split  *)
(* into one action per stretch of code between two awaits.  The Redis     *)
(* commands of the worker process travel over the single ioredis          *)
(* connection `redisConnection`, which executes and answers them in the   *)
(* order they were issued; `wconn` is that pipeline.                      *)
(***************************************************************************)
EXTENDS Integers, Sequences, FiniteSets, TLC

\* ------------------------------------------------------------------ bounds
\* A behaviour starts from one of a few scenarios: the number of products in the record
\* store, and how many start calls, cancel calls, per-item faults (a lookup that fails
\* on every attempt, an upsert that throws), throws of a queue operation and TTL
\* expiries it may contain.
ChunkProducts == 6    \* scenarios "chunks", "item faults": more products than a chunk holds
ItemFaults == 1       \* scenario "item faults": items that fail
RaceCalls == 2        \* scenario "race": concurrent start calls
RaceProducts == 1     \* scenario "race": products
FailProducts == 2     \* scenario "fail": products of a job whose attempt fails
OverlapProducts == 4  \* scenario "overlap": products
OverlapAnswers == 1   \* scenario "overlap": lookups the marketplace answers
MaxImports == 1       \* imports: calls of startCSVImport
ImportAsins == 2      \* imports: distinct asins in the uploaded files
ImportProducts == 1   \* imports: products the table may hold before the first import
PollProducts == 2     \* scenario "poll": products of the job that is polled
Polls == 2            \* scenarios "poll", "import poll": polls
MaxTotal == 40        \* progress writes: the largest total of a job
MaxRows == 3          \* parser alone: the most data rows of a file

\* --------------------------------------------------------- program constants
BATCH_SIZE == 5
IMPORT_BATCH_SIZE == 100
ERRORS_SHOWN == 50
MAX_RETRIES == 3
QUEUE_ATTEMPTS == 3

MaxJobs == RaceCalls
NumAsins == ChunkProducts
Jobs == 1..MaxJobs
Asins == 1..NumAsins
Uploads == 1..MaxImports            \* the calls that upload any file
Imports == 1..(MaxImports + 1)      \* and the call that uploads the last file again

Scenario(products, calls, cancels, itemFaults, throws, expiries, answers, polls, imports) ==
  [products |-> products, calls |-> calls, cancels |-> cancels, itemFaults |-> itemFaults,
   throws |-> throws, expiries |-> expiries, answers |-> answers, polls |-> polls,
   imports |-> imports]

Scenarios ==
  { \* "chunks": one job of two chunks, and a cancellation
    Scenario(ChunkProducts, 1, 1, 0, 0, 0, ChunkProducts, 0, 0),
    \* "item faults": one job of two chunks, items that fail
    Scenario(ChunkProducts, 1, 0, ItemFaults, 0, 0, ChunkProducts, 0, 0),
    \* "race": concurrent start calls, a key that expires
    Scenario(RaceProducts, RaceCalls, 0, 0, 0, 1, RaceProducts * RaceCalls, 0, 0),
    \* "fail": an attempt that fails and is retried
    Scenario(FailProducts, 1, 0, 0, 1, 0, FailProducts * QUEUE_ATTEMPTS, 0, 0),
    \* "overlap": an attempt that fails while the marketplace answers slowly
    Scenario(OverlapProducts, 1, 0, 0, 1, 0, OverlapAnswers, 0, 0),
    \* "poll": one job, polled while it runs and after
    Scenario(PollProducts, 1, 0, 0, 0, 0, PollProducts, Polls, 0),
    \* "import poll": one import, polled while it runs and after
    Scenario(ImportProducts, 0, 0, 0, 0, 1, 0, Polls, 1),
    \* "restart": a job of one product whose attempt fails, and start calls after it
    Scenario(1, RaceCalls, 0, 0, 1, 0, 2, 0, 0) }
Slots == 1..BATCH_SIZE

VARIABLES
  jobRec,       \* Redis asin:processing:status:<jobId>  (status "absent" = no key)
  activeKey,    \* Redis asin:processing:active_job_id   (0 = no key)
  cancelFlag,   \* Redis asin:processing:cancel:<jobId>  (set of job ids whose flag is "1")
  sellerStatus, \* table SellerStatus: asin -> [status, checked]
  pc,           \* startProcessing call c: position
  seen,         \* startProcessing call c: activeJobId it read
  jobData,      \* startProcessing call c: asins selected (BullMQ job data)
  rearmed,      \* history: call c read the key that markJobCompleted had re-armed
  cpc,          \* cancelJob call: position, then its result
  cseen,        \* cancelJob call: activeJobId it read
  bull,         \* BullMQ job j: [state, attemptsMade]
  waitq,        \* BullMQ wait list
  runs,         \* invocations of processAsinJob, in order of start
  wconn,        \* commands of the worker process pending on redisConnection
  lookups,      \* history: asin -> "none" | "failedOnly" | "ok"
  clock,        \* logical time of new Date() at terminal transitions
  product,      \* table Product: the asins it holds
  fields,       \* table Product: asin -> the stored columns other than the key
  refused,      \* history: call -> the mode the controller refused ("none": not refused)
  poll,         \* the poll in progress and the answer to the last one
  probe,        \* a function called on its own (checkAsinEligibility, parseKeepaCSV): its
                \*          input and its result
  cancelAt,     \* history: job -> loop index i of the chunk in flight when its cancel flag
                \*          was set (-1: never set while a chunk was in flight)
  impRec,       \* Redis import:job:<jobId>             (status "absent" = no key)
  imp,          \* startCSVImport call m: the background task processCSVImport
  importFile,   \* table ImportFile: the row each import created
  tagH,         \* table Tag: whether the tag "H" exists
  productTag,   \* table ProductTag: the asins linked to the tag "H"
  errorFiles,   \* uploads/errors: the files written, [import, errors]
  scen,         \* the scenario of this behaviour (never changes)
  used          \* what the behaviour has used of it: [calls, cancels, itemFaults, throws,
                \*          expiries, answers]

vars == <<jobRec, activeKey, cancelFlag, sellerStatus, product, pc, seen, jobData, rearmed,
          cpc, cseen,
          bull, waitq, runs, wconn, lookups, clock, cancelAt, scen, used, probe, fields, refused, poll,
          impRec, imp, importFile, tagH, productTag, errorFiles>>

importVars == <<impRec, imp, importFile, tagH, productTag, errorFiles>>

\* ------------------------------------------------------------ job records
NoRec == [status |-> "absent", total |-> 0, processed |-> 0, percentage |-> 0,
          completedAt |-> 0, error |-> "", asins |-> <<>>]

\* the reply is never taken for a missing key
missingNever(raw) == FALSE

\* const raw = await redisConnection.get(key); if (!raw) return;
missing(raw) == raw.status = "absent"

\* ------------------------------------------------------------ doubles
\* IEEE 754 binary64, as far as (processed / total) * 100 needs it.
\* A positive double is [m, e]: m its 53 significand bits, first bit 1, most significant
\* first, and e the exponent of the last bit: the value is m * 2^e.
SIGNIFICAND == 53

RECURSIVE ToBits(_)
ToBits(n) == IF n = 0 THEN <<>> ELSE ToBits(n \div 2) \o <<n % 2>>

RECURSIVE ToInt(_)
ToInt(bits) ==
  IF bits = <<>> THEN 0 ELSE 2 * ToInt(SubSeq(bits, 1, Len(bits) - 1)) + bits[Len(bits)]

\* bits, with zeros in front up to the length n
Pad(bits, n) ==
  [x \in 1..n |-> IF x <= n - Len(bits) THEN 0 ELSE bits[x - (n - Len(bits))]]

\* bits + 1
Incr(bits) ==
  IF \A x \in 1..Len(bits) : bits[x] = 1 THEN <<1>> \o [x \in 1..Len(bits) |-> 0]
  ELSE LET z == CHOOSE x \in 1..Len(bits) :
                  bits[x] = 0 /\ \A y \in (x + 1)..Len(bits) : bits[y] = 1
       IN [x \in 1..Len(bits) |-> IF x < z THEN bits[x] ELSE IF x = z THEN 1 ELSE 0]

\* bits * k + carry, for a small k, 8 bits at a step
RECURSIVE MulSmall(_, _, _)
MulSmall(bits, k, carry) ==
  IF bits = <<>> THEN ToBits(carry)
  ELSE LET c == IF Len(bits) < 8 THEN Len(bits) ELSE 8
           v == ToInt(SubSeq(bits, Len(bits) - c + 1, Len(bits))) * k + carry
       IN MulSmall(SubSeq(bits, 1, Len(bits) - c), k, v \div 2^c) \o Pad(ToBits(v % 2^c), c)

\* the next n bits of the quotient r / t (r < t), and whether anything is left after them
RECURSIVE QuotientBits(_, _, _)
QuotientBits(n, r, t) ==
  IF n = 0 THEN [bits |-> <<>>, inexact |-> r # 0]
  ELSE LET c == IF n < 8 THEN n ELSE 8
           rest == QuotientBits(n - c, (r * 2^c) % t, t)
       IN [bits |-> Pad(ToBits((r * 2^c) \div t), c) \o rest.bits, inexact |-> rest.inexact]

\* roundTiesToEven: the exact value bits * 2^e (plus something below the last bit when
\* `inexact`), Len(bits) >= SIGNIFICAND, rounded to the nearest double
RoundTiesToEven(bits, e, inexact) ==
  LET kept == SubSeq(bits, 1, SIGNIFICAND)
      dropped == SubSeq(bits, SIGNIFICAND + 1, Len(bits))
      below == inexact \/ \E x \in 2..Len(dropped) : dropped[x] = 1
      up == dropped # <<>> /\ dropped[1] = 1 /\ (below \/ kept[SIGNIFICAND] = 1)
      m == IF up THEN Incr(kept) ELSE kept
  IN IF Len(m) > SIGNIFICAND
     THEN [m |-> SubSeq(m, 1, SIGNIFICAND), e |-> e + Len(dropped) + 1]
     ELSE [m |-> m, e |-> e + Len(dropped)]

\* processed / total for 0 < processed <= total
Divide(p, t) ==
  LET s == CHOOSE n \in 0..30 : p * 2^n >= t /\ (n = 0 \/ p * 2^(n - 1) < t)
      q == QuotientBits(SIGNIFICAND, p * 2^s - t, t)
  IN RoundTiesToEven(<<1>> \o q.bits, 0 - s - SIGNIFICAND, q.inexact)

\* x * k for a small integer k
Times(x, k) == RoundTiesToEven(MulSmall(x.m, k, 0), x.e, FALSE)

\* Math.round(x) for a positive double below 2^53: the nearest integer, a half goes up
MathRound(x) ==
  LET f == 0 - x.e   \* the bits after the binary point
  IN IF f > SIGNIFICAND THEN 0
     ELSE ToInt(SubSeq(x.m, 1, SIGNIFICAND - f)) + x.m[SIGNIFICAND - f + 1]

\* Math.round((processed / total) * 100): the quotient is rounded to a double, the product
\* is rounded to a double, and Math.round takes the nearest integer of that
percentageOf(processed, total) ==
  IF processed = 0 THEN 0 ELSE MathRound(Times(Divide(processed, total), 100))

\* percentageOf, computed once for every total up to MaxTotal
Percentages == [y \in 1..MaxTotal |-> [x \in 0..y |-> percentageOf(x, y)]]

\* round(processed / total * 100) in exact arithmetic, a half going up
Round100(p, t) == (200 * p + t) \div (2 * t)

initialStatus(asins) ==
  [status |-> "running", total |-> Len(asins), processed |-> 0, percentage |-> 0,
   completedAt |-> 0, error |-> "", asins |-> asins]

\* the count of the update is stored as the total as well
progressWriteTotal(status, processed, total) ==
  [status EXCEPT !.processed = processed, !.total = processed, !.percentage = 100]

\* the body of updateJobProgress after the read: status.processed, status.percentage
progressWrite(status, processed, total) ==
  [status EXCEPT !.processed = processed, !.percentage = Percentages[total][processed]]

\* the body of markJobCompleted after the read
completedWrite(status, now) ==
  [status EXCEPT !.status = "completed", !.percentage = 100, !.completedAt = now]

\* the body of markJobFailed after the read
failedWrite(status, error, now) ==
  [status EXCEPT !.status = "failed", !.error = error, !.completedAt = now]

\* ------------------------------------------------------------ record store
NoRow == [status |-> "none", checked |-> FALSE]

\* the elements of a set of asins in ascending order (the order of a query without orderBy)
RECURSIVE Ascending(_)
Ascending(S) ==
  IF S = {} THEN <<>>
  ELSE LET m == CHOOSE x \in S : \A y \in S : x <= y
       IN <<m>> \o Ascending(S \ {m})

\* the first `limit` elements of a sequence: take limit
Take(seq, limit) == SubSeq(seq, 1, IF Len(seq) < limit THEN Len(seq) ELSE limit)

\* Product a was created after product a + 1, so that orderBy created_at desc is the
\* ascending order of the asins.
findAsinsForProcessing(mode, products, table) ==
  CASE mode = "unchecked" ->
         Ascending({a \in products : table[a].status = "none" \/ ~table[a].checked})
    [] mode = "gated" ->
         Ascending({a \in products : table[a].status = "gated"})
    [] OTHER -> Take(Ascending(products), IF mode = "100" THEN 100 ELSE 200)

VALID_MODES == {"100", "200", "unchecked"}

\* ------------------------------------------------------- checkAsinEligibility
\* A response of the restrictions endpoint: http = 200 with the reason code of the
\* new_new restriction ("none": no restriction at all, "otherCondition": restrictions
\* without a new_new entry, "noReason": a new_new entry without reason code), or an
\* error with its HTTP status (0: no response, e.g. a network or token error).
\* retryAfter is the number of seconds in the response's Retry-After header (0: no header).
Answer(reason) == [http |-> 200, reason |-> reason, retryAfter |-> 0]
Failure(http) == [http |-> http, reason |-> "", retryAfter |-> 0]
Throttled(seconds) == [http |-> 429, reason |-> "", retryAfter |-> seconds]

mapReason(reason) ==
  CASE reason \in {"none", "otherCondition", "noReason"} -> "allowed"
    [] reason = "APPROVAL_REQUIRED" -> "gated"
    [] reason = "NOT_ELIGIBLE" -> "restricted"
    [] reason = "ASIN_NOT_FOUND" -> "unknown"
    [] OTHER -> "unknown"

\* every error is tried again
retryableAny(http) == http # 200

\* statusCode === 429 || (statusCode && statusCode >= 500); an error without a response
\* has no statusCode
retryable(http) == http = 429 \/ (http # 0 /\ http >= 500)

\* checkAsinEligibility(asin, retries) against the responses the endpoint gives to the
\* successive requests: the value returned, the requests issued, the delays slept, and
\* whether every request failed, and whether the call ended by throwing to its caller
RECURSIVE checkAsinEligibility(_, _)
checkAsinEligibility(resps, retries) ==
  LET r == Head(resps) IN
  IF r.http = 200
  THEN [status |-> mapReason(r.reason), requests |-> 1, delays |-> <<>>, failed |-> FALSE,
        threw |-> FALSE]
  ELSE IF retryable(r.http) /\ retries > 0
       THEN LET delay == (MAX_RETRIES - retries + 1) * 1000
                rest == checkAsinEligibility(Tail(resps), retries - 1)
            IN [status |-> rest.status, requests |-> rest.requests + 1,
                delays |-> <<delay>> \o rest.delays, failed |-> rest.failed,
                threw |-> rest.threw]
       ELSE \* "Final failure": the catch block logs and returns, nothing is rethrown
            [status |-> "unknown", requests |-> 1, delays |-> <<>>, failed |-> TRUE,
             threw |-> FALSE]

\* what the marketplace holds for each asin (fixed during a behaviour)
Listing(a) ==
  CASE a % 4 = 1 -> "none"
    [] a % 4 = 2 -> "APPROVAL_REQUIRED"
    [] a % 4 = 3 -> "NOT_ELIGIBLE"
    [] OTHER -> "ASIN_NOT_FOUND"

\* the response sequences the endpoint may give while one asin is looked up
HealthyScripts(a) ==
  { <<Answer(Listing(a))>>, <<Failure(429), Failure(503), Answer(Listing(a))>> }
FailingScripts ==
  { <<Failure(429), Failure(500), Failure(503), Failure(429)>>, <<Failure(403)>>, <<Failure(0)>> }

\* the responses a direct call of the client is tried against, and the sequences of
\* them: one response for the first request and one for each possible retry
Responses ==
  { Answer("none"), Answer("otherCondition"), Answer("noReason"),
    Answer("APPROVAL_REQUIRED"), Answer("NOT_ELIGIBLE"), Answer("ASIN_NOT_FOUND"),
    Answer("SOME_NEW_CODE"),
    Failure(429), Throttled(5), Failure(500), Failure(403), Failure(0) }
ClientScripts == [1..(MAX_RETRIES + 1) -> Responses]
NoProbe == [script |-> <<>>, called |-> FALSE,
            res |-> [status |-> "", requests |-> 0, delays |-> <<>>, failed |-> FALSE,
                     threw |-> FALSE]]

\* ------------------------------------------------------------ import files
\* A row of an uploaded CSV as parseKeepaCSV maps it: its ASIN cell (0: blank or
\* missing) and its hazmat cell.  The file of such a row has no rating column, so the
\* product object has no rating property.
Row(asin, hazmat) == [asin |-> asin, hazmat |-> hazmat]

\* null, and a known value
Null == <<>>
Known(v) == <<v>>

\* parseValue(field, raw): an empty cell, "N/A" or "-" is null; a number is its value
parseValue(cell) == IF cell = "" \/ cell = "N/A" \/ cell = "-" THEN Null ELSE Known(cell)

\* the row of a file that has a rating column: the product object has the property,
\* null when the cell is empty
Rated(row, cell) == row @@ [rating |-> parseValue(cell)]

\* the columns of a stored product that an earlier import filled
KnownColumns == [rating |-> Known("4.5"), is_hazmat |-> Known(FALSE)]

\* only the columns that came with a value replace what is stored
UPDATE_SET_COALESCE(excluded, table, a) ==
  IF a \notin DOMAIN table THEN excluded
  ELSE [col \in DOMAIN excluded |->
          IF excluded[col] = Null THEN table[a][col] ELSE excluded[col]]

\* UPDATE_SET: `${c} = EXCLUDED.${c}` for every column but asin; a new row is inserted
\* with the same values
UPDATE_SET(excluded, table, a) == excluded

\* values.push(record[col] ?? null), column by column
valuesOf(record) ==
  [rating |-> IF "rating" \in DOMAIN record THEN record.rating ELSE Null,
   is_hazmat |-> Known(record.hazmat)]

\* productsRepository.upsertMany(records) on the table: one INSERT ... ON CONFLICT (asin)
\* DO UPDATE SET col = EXCLUDED.col for every column.  The statement fails when two
\* of its rows have the same asin (it cannot affect a row a second time).
upsertMany(records, table) ==
  LET asins == {records[x].asin : x \in 1..Len(records)}
      twice == Cardinality(asins) # Len(records)
      rowOf(a) == records[CHOOSE x \in 1..Len(records) : records[x].asin = a]
  IN IF Len(records) = 0 THEN [threw |-> FALSE, table |-> table]
     ELSE IF twice THEN [threw |-> TRUE, table |-> table]
     ELSE [threw |-> FALSE,
           table |-> [a \in DOMAIN table \cup asins |->
                        IF a \in asins THEN UPDATE_SET(valuesOf(rowOf(a)), table, a)
                        ELSE table[a]]]

\* The ASIN cell of a raw row of Papa.parse: "absent" when the row has no value under an
\* ASIN header, otherwise its text.
AsinCells == {"absent", "", " ", "N/A", "-", "B1", " B1 ", "B2"}

\* raw.trim() on the texts above
trim(raw) == IF raw = " " THEN "" ELSE IF raw = " B1 " THEN "B1" ELSE raw

\* the number of an identifier in the tables of the model
AsinNumber == [text \in {"B1", "B2"} |-> IF text = "B1" THEN 1 ELSE 2]

\* What the two checks of a row leave of its ASIN cell: 0 when the row is pushed to
\* errors (`!rawAsin.trim()`, with rawAsin = row["asin"] ?? "", or `!product.asin`, with
\* product.asin = parseValue("asin", raw), null for "", "N/A" and "-"), otherwise the
\* number of the trimmed text.
asinOf(cell) ==
  LET rawAsin == IF cell = "absent" THEN "" ELSE cell
  IN IF trim(rawAsin) = "" THEN 0
     ELSE IF cell = "N/A" \/ cell = "-" THEN 0
     ELSE AsinNumber[trim(cell)]

\* the rows of a file that has an ASIN column only, as the checks see them
rawRows(cells) == [x \in 1..Len(cells) |-> Row(asinOf(cells[x]), FALSE)]

\* rows are numbered from 1
rowNumberFromOne(index) == index + 1

\* const rowNumber = index + 2; // 1-indexed + header row
rowNumber(index) == index + 2

\* parseKeepaCSV: the rows with an ASIN are valid, the others are errors numbered
\* index + 2 (index from 0)
parseKeepaCSV(rows) ==
  [valid |-> SelectSeq(rows, LAMBDA row : row.asin # 0),
   errors |-> Ascending({rowNumber(x - 1) : x \in {y \in 1..Len(rows) : rows[y].asin = 0}}),
   totalRows |-> Len(rows)]

\* a file of more valid rows than one upsert batch holds
BigFile == [x \in 1..(IMPORT_BATCH_SIZE + 1) |-> Row(x, FALSE)]

\* a valid row followed by more rows without ASIN than a summary shows
ManyErrors == <<Row(1, FALSE)>> \o [x \in 1..(ERRORS_SHOWN + 1) |-> Row(0, FALSE)]

\* the big file with the identifier of its first row again in its last row, which is in
\* the second batch
BigFileTwice == [BigFile EXCEPT ![IMPORT_BATCH_SIZE + 1] = Row(1, FALSE)]

\* the uploads: no row, no valid row, the big files, the file of many errors, a row with
\* an empty and with a filled rating cell, a valid and an invalid row, the same asin
\* twice around an invalid row, and one row per asin (the even ones hazmat)
FileList ==
  << <<>>, <<Row(0, FALSE)>>, BigFile, BigFileTwice, ManyErrors,
     <<Rated(Row(1, FALSE), "")>>, <<Rated(Row(1, FALSE), "3.9")>>,
     <<Row(1, FALSE), Row(0, FALSE)>>,
     <<Row(1, FALSE), Row(0, FALSE), Row(1, TRUE)>> >>
  \o [a \in 1..ImportAsins |-> <<Row(a, a % 2 = 0)>>]

\* an upload is named by its place in the list; what parseKeepaCSV(buffer) returns for it
Files == DOMAIN FileList
Parsed == [file \in Files |-> parseKeepaCSV(FileList[file])]

NoSummary == [present |-> FALSE, total_rows |-> 0, inserted_rows |-> 0, updated_rows |-> 0,
              failed_rows |-> 0, hasErrors |-> FALSE, errors |-> <<>>]
\* error: the message stored with a failure ("": none; ImportProgress declares no such
\* property and nothing assigns one)
NoImp == [status |-> "absent", total |-> 0, processed |-> 0, completedAt |-> 0,
          summary |-> NoSummary, error |-> ""]
NoTask == [pc |-> "idle", file |-> 0, i |-> 0, inserted |-> 0, updated |-> 0,
           snap |-> NoImp, threw |-> FALSE]
NoImportFile == [state |-> "none", total_rows |-> 0, inserted_rows |-> 0, updated_rows |-> 0,
                 failed_rows |-> 0, error_file |-> FALSE]

\* the answer to a poll: the record read (NoRec: null), the summary of getJobSummary, the
\* import record read
NoCounts == [present |-> FALSE, allowed |-> 0, gated |-> 0, restricted |-> 0, unknown |-> 0]
NoAnswer == [kind |-> "none", rec |-> NoRec, summary |-> NoCounts, imp |-> NoImp]
NoPoll == [pc |-> "idle", kind |-> "none", job |-> 0, snap |-> NoRec, asins |-> <<>>,
           res |-> NoAnswer]

\* ------------------------------------------------------------------- Init
NoSlot == [pc |-> "idle", k |-> 0, snap |-> NoRec]

\* no product was looked up yet: the table SellerStatus is empty
Unchecked == sellerStatus = [a \in Asins |-> NoRow]

\* nothing is in progress: no call is under way, the worker has no run, the tables other
\* than Product and SellerStatus are empty and no import was requested
Quiet ==
  /\ cancelFlag = {}
  /\ seen = [c \in Jobs |-> 0]
  /\ rearmed = [c \in Jobs |-> FALSE]
  /\ cpc = "idle"
  /\ cseen = 0
  /\ runs = <<>>
  /\ wconn = <<>>
  /\ lookups = [a \in Asins |-> "none"]
  /\ clock = 1
  /\ cancelAt = [j \in Jobs |-> -1]
  /\ impRec = [m \in Imports |-> NoImp]
  /\ imp = [m \in Imports |-> NoTask]
  /\ importFile = [m \in Imports |-> NoImportFile]
  /\ tagH = FALSE
  /\ productTag = {}
  /\ errorFiles = {}
  /\ refused = [c \in Jobs |-> "none"]
  /\ poll = NoPoll

NoUse == [calls |-> 0, cancels |-> 0, itemFaults |-> 0, throws |-> 0, expiries |-> 0,
          answers |-> 0, polls |-> 0, imports |-> 0]

\* no start call has arrived: the progress store and the queue are empty
Unstarted ==
  /\ jobRec = [j \in Jobs |-> NoRec]
  /\ activeKey = 0
  /\ pc = [c \in Jobs |-> "idle"]
  /\ jobData = [c \in Jobs |-> <<>>]
  /\ bull = [j \in Jobs |-> [state |-> "none", attemptsMade |-> 0]]
  /\ waitq = <<>>
  /\ used = NoUse

\* nothing has been requested yet
Fresh ==
  /\ Quiet
  /\ Unchecked
  /\ Unstarted
  /\ probe = NoProbe

Init ==
  /\ Fresh
  /\ scen \in Scenarios
  /\ product = 1..scen.products
  /\ fields = [a \in product |-> KnownColumns]

serverVars == <<pc, seen, jobData, rearmed>>
cancelVars == <<cpc, cseen, cancelAt>>
workerVars == <<bull, waitq, runs, wconn, lookups, clock>>
left == <<scen, used>>
viewVars == <<probe, refused, poll>>
spend(what, n) == /\ used[what] + n <= scen[what]
                  /\ used' = [used EXCEPT ![what] = @ + n]
                  /\ UNCHANGED scen
storeVars == <<jobRec, activeKey, cancelFlag>>
dbVars == <<sellerStatus, product, fields>>

\* the callbacks of an invocation that have been dispatched and have not returned
inFlight(run) == {k \in Slots : run.slots[k].pc \in {"lookup", "get", "set"}}

\* ------------------------------------------------------- startProcessing
\* Call c of POST /api/processing/start; the job id it would draw is c.

\* job ids are opaque: call c + 1 is the one that arrives after call c
\* errorHandler(err): an AppError answers with its statusCode and { error: message }
errorHandler(statusCode) == [status |-> statusCode, error |-> TRUE]

inOrder(c) == IF c = 1 THEN TRUE ELSE pc[c - 1] # "idle"

\* processingController.startJob: a mode outside VALID_MODES is refused
startJobBadMode(c) ==
  /\ pc[c] = "idle"
  /\ inOrder(c)
  /\ \E mode \in {"", "gated"} :
       /\ mode = "" \/ mode \notin VALID_MODES
       /\ pc' = [pc EXCEPT ![c] = "badMode"]
       /\ refused' = [refused EXCEPT ![c] = mode]
  /\ spend("calls", 1)
  /\ UNCHANGED <<probe, poll, importVars, rearmed, seen, jobData, cancelVars, workerVars, storeVars, dbVars>>

\* the active-job key alone decides: any key is a conflict
afterReadStrict(key) == IF key # 0 THEN "conflict" ELSE "find"

\* if (activeJobId) { const status = await getJobStatus(activeJobId); ... }
afterRead(key) == IF key # 0 THEN "status" ELSE "find"

\* const activeJobId = await redisConnection.get(ACTIVE_JOB_KEY)
startRead(c) ==
  /\ pc[c] = "idle"
  /\ inOrder(c)
  /\ spend("calls", 1)
  /\ seen' = [seen EXCEPT ![c] = activeKey]
  /\ rearmed' = [rearmed EXCEPT ![c] =
       \E r \in DOMAIN runs : /\ runs[r].job = activeKey
                               /\ runs[r].st = "completed" /\ runs[r].mk = "done"
                               /\ jobRec[activeKey].status = "completed"]
  /\ pc' = [pc EXCEPT ![c] = afterRead(activeKey)]
  /\ UNCHANGED <<viewVars, importVars, jobData, cancelVars, workerVars, storeVars, dbVars>>

\* the status of the active job is not looked at
afterCheckAlways(status) == "find"

\* if (status?.status === "running") throw new Error("A processing job is already
\* running. ..."): the conflict error
afterCheck(status) == IF status = "running" THEN "conflict" ELSE "find"

\* const status = await getJobStatus(activeJobId); running => throw
startCheck(c) ==
  /\ pc[c] = "status"
  /\ pc' = [pc EXCEPT ![c] = afterCheck(jobRec[seen[c]].status)]
  /\ UNCHANGED <<viewVars, importVars, rearmed, seen, jobData, cancelVars, workerVars, storeVars, dbVars, left>>

\* the selection is not looked at
afterFindAny(asins) == "writeStatus"

\* if (products.length === 0) throw new Error("No ASINs found for the selected
\* processing mode.")
afterFind(asins) == IF Len(asins) = 0 THEN "empty" ELSE "writeStatus"

\* processingController.startJob and errorHandler: what the caller of a call that ended
\* in `outcome` receives.  Only the refusal of the mode is an AppError; the errors
\* thrown by startProcessing are plain Errors, answered with 500.  The body carries a
\* jobId exactly when the response is no error.
startJobResponse(outcome) ==
  IF outcome = "started" THEN [status |-> 200, error |-> FALSE]
  ELSE errorHandler(IF outcome = "badMode" THEN 400 ELSE 500)

\* const products = await findAsinsForProcessing(mode); none => throw
startFind(c) ==
  /\ pc[c] = "find"
  /\ \E mode \in VALID_MODES :
       LET asins == findAsinsForProcessing(mode, product, sellerStatus) IN
       /\ pc' = [pc EXCEPT ![c] = afterFind(asins)]
       /\ jobData' = [jobData EXCEPT ![c] = asins]
  /\ UNCHANGED <<viewVars, importVars, rearmed, seen, cancelVars, workerVars, storeVars, dbVars, left>>

\* await redisConnection.setex(JOB_STATUS_PREFIX + jobId, 86400, initialStatus)
startWriteStatus(c) ==
  /\ pc[c] = "writeStatus"
  /\ jobRec' = [jobRec EXCEPT ![c] = initialStatus(jobData[c])]
  /\ pc' = [pc EXCEPT ![c] = "writeActive"]
  /\ UNCHANGED <<viewVars, importVars, rearmed, seen, jobData, cancelVars, workerVars, activeKey, cancelFlag, dbVars,
                 left>>

\* await redisConnection.setex(ACTIVE_JOB_KEY, 86400, jobId)
startWriteActive(c) ==
  /\ pc[c] = "writeActive"
  /\ activeKey' = c
  /\ pc' = [pc EXCEPT ![c] = "enqueue"]
  /\ UNCHANGED <<viewVars, importVars, rearmed, seen, jobData, cancelVars, workerVars, jobRec, cancelFlag, dbVars,
                 left>>

\* await asinProcessingQueue.add("process-asins", jobData, { jobId })
startEnqueue(c) ==
  /\ pc[c] = "enqueue"
  /\ \/ /\ bull' = [bull EXCEPT ![c].state = "waiting"]
        /\ waitq' = Append(waitq, c)
        /\ pc' = [pc EXCEPT ![c] = "started"]
        /\ UNCHANGED left
     \/ /\ spend("throws", 1)
        /\ pc' = [pc EXCEPT ![c] = "enqueueFailed"]
        /\ UNCHANGED <<bull, waitq>>
  /\ UNCHANGED <<viewVars, importVars, rearmed, seen, jobData, cancelVars, runs, wconn, lookups, clock, storeVars,
                 dbVars>>

startProcessing(c) ==
  \/ startJobBadMode(c)
  \/ startRead(c)
  \/ startCheck(c)
  \/ startFind(c)
  \/ startWriteStatus(c)
  \/ startWriteActive(c)
  \/ startEnqueue(c)

\* ------------------------------------------------------------- cancelJob
\* const activeJobId = await redisConnection.get(ACTIVE_JOB_KEY); none => cancelled: false
cancelRead ==
  /\ cpc \in {"idle", "cancelled", "nothing"}
  /\ spend("cancels", 1)
  /\ cseen' = activeKey
  /\ cpc' = IF activeKey = 0 THEN "nothing" ELSE "status"
  /\ UNCHANGED <<viewVars, importVars, cancelAt, serverVars, workerVars, storeVars, dbVars>>

\* const status = await getJobStatus(activeJobId); not running => cancelled: false
cancelCheck ==
  /\ cpc = "status"
  /\ cpc' = IF jobRec[cseen].status # "running" THEN "nothing" ELSE "flag"
  /\ UNCHANGED <<viewVars, importVars, cseen, cancelAt, serverVars, workerVars, storeVars, dbVars, left>>

\* await redisConnection.setex(CANCEL_FLAG_PREFIX + activeJobId, 3600, "1")
cancelSetFlag ==
  /\ cpc = "flag"
  /\ cancelFlag' = cancelFlag \cup {cseen}
  /\ cpc' = "cancelled"
  /\ cancelAt' = [cancelAt EXCEPT ![cseen] =
       IF \E r \in DOMAIN runs : runs[r].job = cseen /\ runs[r].st = "running"
                                 /\ inFlight(runs[r]) # {}
       THEN runs[CHOOSE r \in DOMAIN runs : runs[r].job = cseen /\ runs[r].st = "running"].i
       ELSE @]
  /\ UNCHANGED <<viewVars, importVars, cseen, serverVars, workerVars, jobRec, activeKey, dbVars,
                 left>>

cancelJob == cancelRead \/ cancelCheck \/ cancelSetFlag

\* processingController.cancelJob: if (!result.cancelled) throw new AppError(400, "No
\* active processing job to cancel"); otherwise res.json({ message, jobId }), status 200
cancelJobResponse(result) ==
  IF ~result.cancelled THEN errorHandler(400) ELSE [status |-> 200, error |-> FALSE]

\* the return value of processingService.cancelJob() once the call has ended
cancelJobResult == [cancelled |-> cpc = "cancelled"]

\* isJobCancelled(jobId): the value the probe would return
isJobCancelled(j) == j \in cancelFlag

\* ------------------------------------------------------------ the worker
\* A run is one invocation of processAsinJob(job): the loop index i, the local counter
\* `processed`, the callbacks of the current chunk (one slot each), and the handler that
\* ends it: markJobCompleted, or markJobFailed from worker.on("failed").
\*   sink : history, the values passed to updateJobProgress, in call order
\*   st : "running" | "marking" (in markJobCompleted) | "completed" | "rejected"
\*   mk : position of the ending handler: "none" | "get" | "set" | "key" | "done"

Item(kind, r, k) == [kind |-> kind, run |-> r, slot |-> k]

asinsOf(run) == jobData[run.job]
totalCount(run) == Len(jobData[run.job])

\* batch = asins.slice(i, i + BATCH_SIZE); batch.map(async (asin) => ...): every callback
\* runs up to its first await, the lookup
dispatch(asins, i) ==
  [k \in Slots |-> IF i + k <= Len(asins) THEN [NoSlot EXCEPT !.pc = "lookup"] ELSE NoSlot]

busy == \E r \in 1..Len(runs) : runs[r].st \in {"running", "marking"}

\* Worker (concurrency: 1) takes the next waiting job and calls processAsinJob
workerTake ==
  /\ ~busy
  /\ waitq # <<>>
  /\ LET j == Head(waitq) IN
       /\ bull' = [bull EXCEPT ![j].state = "active"]
       /\ runs' = Append(runs, [job |-> j, i |-> 0, processed |-> 0, sink |-> <<>>,
                                st |-> "running",
                                slots |-> dispatch(jobData[j], 0),
                                mk |-> "none", msnap |-> NoRec, merr |-> ""])
  /\ waitq' = Tail(waitq)
  /\ UNCHANGED <<viewVars, importVars, wconn, lookups, clock, serverVars, cancelVars, storeVars, dbVars,
                 left>>

\* the position of the item in the job's list is passed instead of the counter
progressArgByPosition(run, k) == run.i + k

\* processed++; updateJobProgress(jobId, processed, totalCount): the value passed by the
\* callback of slot k is the counter after its own increment
progressArg(run, k) == run.processed + 1

\* a callback whose try block threw escapes to Promise.all
itemUncaught(threw) == IF threw THEN "threw" ELSE "get"

\* try { ... } catch (err) { logger.warn(...) }: whether or not the try block threw, the
\* callback goes on to processed++ and updateJobProgress
itemCaught(threw) == "get"

\* One callback up to `await updateJobProgress`: the lookup, the upsert of SellerStatus
\* (or the catch), processed++, and the GET that updateJobProgress issues.
itemAttempt(r, k) ==
  /\ r \in 1..Len(runs)
  /\ runs[r].slots[k].pc = "lookup"
  /\ LET run == runs[r]
         asin == asinsOf(run)[run.i + k]
     IN
     /\ \E script \in HealthyScripts(asin) \cup FailingScripts, upsertThrows \in BOOLEAN :
          LET res == checkAsinEligibility(script, MAX_RETRIES)
              nfaults == (IF res.failed THEN 1 ELSE 0) + (IF upsertThrows THEN 1 ELSE 0)
          IN
          /\ used.itemFaults + nfaults <= scen.itemFaults
          /\ used.answers < scen.answers
          /\ used' = [used EXCEPT !.itemFaults = @ + nfaults, !.answers = @ + 1]
          /\ UNCHANGED scen
          /\ sellerStatus' =
               IF upsertThrows THEN sellerStatus
               ELSE [sellerStatus EXCEPT ![asin] = [status |-> res.status, checked |-> TRUE]]
          /\ lookups' = [lookups EXCEPT ![asin] =
               IF ~res.failed THEN "ok" ELSE IF @ = "ok" THEN "ok" ELSE "failedOnly"]
          /\ runs' = [runs EXCEPT ![r].processed = @ + 1,
                                  ![r].sink = Append(@, progressArg(run, k)),
                                  ![r].slots[k] = [pc |-> itemCaught(upsertThrows),
                                                   k |-> progressArg(run, k), snap |-> NoRec]]
     /\ wconn' = Append(wconn, Item("item", r, k))
  /\ UNCHANGED <<viewVars, importVars, bull, waitq, clock, serverVars, cancelVars, storeVars, product, fields>>

\* The end of a callback: `await job.updateProgress(...)` returns, or throws
itemEnd(rs, r, k, throws) ==
  [rs EXCEPT ![r].slots[k] = [pc |-> IF throws THEN "threw" ELSE "done", k |-> 0,
                              snap |-> NoRec]]

\* updateJobProgress: the reply to `redisConnection.get(key)`
itemGet(r, k) ==
  /\ wconn # <<>> /\ Head(wconn) = Item("item", r, k)
  /\ runs[r].slots[k].pc = "get"
  /\ LET run == runs[r]
         raw == jobRec[run.job]
     IN
     IF missing(raw)
     THEN \* if (!raw) return; then job.updateProgress
          /\ \E throws \in BOOLEAN :
               /\ IF throws THEN spend("throws", 1) ELSE UNCHANGED left
               /\ runs' = itemEnd(runs, r, k, throws)
          /\ wconn' = Tail(wconn)
     ELSE /\ runs' = [runs EXCEPT ![r].slots[k].pc = "set",
                        ![r].slots[k].snap =
                           progressWrite(raw, run.slots[k].k, totalCount(run))]
          /\ wconn' = Append(Tail(wconn), Item("item", r, k))
          /\ UNCHANGED left
  /\ UNCHANGED <<viewVars, importVars, bull, waitq, lookups, clock, serverVars, cancelVars, storeVars, dbVars>>

\* updateJobProgress: `redisConnection.setex(key, 86400, status)`, then job.updateProgress
itemSet(r, k) ==
  /\ wconn # <<>> /\ Head(wconn) = Item("item", r, k)
  /\ runs[r].slots[k].pc = "set"
  /\ jobRec' = [jobRec EXCEPT ![runs[r].job] = runs[r].slots[k].snap]
  /\ \E throws \in BOOLEAN :
       /\ IF throws THEN spend("throws", 1) ELSE UNCHANGED left
       /\ runs' = itemEnd(runs, r, k, throws)
  /\ wconn' = Tail(wconn)
  /\ UNCHANGED <<viewVars, importVars, bull, waitq, lookups, clock, serverVars, cancelVars, activeKey, cancelFlag,
                 dbVars>>

allDone(run) == \A k \in Slots : run.slots[k].pc \in {"idle", "done"}

\* Promise.all resolved and another chunk remains: sleep(BATCH_DELAY_MS), i += BATCH_SIZE,
\* dispatch the next chunk
nextChunk(r) ==
  /\ r \in 1..Len(runs)
  /\ runs[r].st = "running"
  /\ allDone(runs[r])
  /\ runs[r].i + BATCH_SIZE < totalCount(runs[r])
  /\ runs' = [runs EXCEPT ![r].i = @ + BATCH_SIZE,
                          ![r].slots = dispatch(asinsOf(runs[r]), runs[r].i + BATCH_SIZE)]
  /\ UNCHANGED <<viewVars, importVars, bull, waitq, wconn, lookups, clock, serverVars, cancelVars, storeVars,
                 dbVars, left>>

\* Promise.all resolved for the last chunk: await markJobCompleted(jobId) issues its GET
lastChunkDone(r) ==
  /\ r \in 1..Len(runs)
  /\ runs[r].st = "running"
  /\ allDone(runs[r])
  /\ ~(runs[r].i + BATCH_SIZE < totalCount(runs[r]))
  /\ runs' = [runs EXCEPT ![r].st = "marking", ![r].mk = "get"]
  /\ wconn' = Append(wconn, Item("mark", r, 0))
  /\ UNCHANGED <<viewVars, importVars, bull, waitq, lookups, clock, serverVars, cancelVars, storeVars,
                 dbVars, left>>

\* A callback threw, so Promise.all rejects and processAsinJob rejects (the other
\* callbacks of the chunk keep running).  BullMQ counts the attempt, moves the job to
\* delayed (a retry is left) or failed, and emits "failed": the listener calls
\* markJobFailed(jobId, err.message), which issues its GET.
attemptFailed(r) ==
  /\ r \in 1..Len(runs)
  /\ runs[r].st = "running"
  /\ \E k \in Slots : runs[r].slots[k].pc = "threw"
  /\ LET j == runs[r].job
         made == bull[j].attemptsMade + 1
     IN bull' = [bull EXCEPT ![j] = [state |-> IF made < QUEUE_ATTEMPTS THEN "delayed"
                                                ELSE "failed",
                                     attemptsMade |-> made]]
  /\ runs' = [runs EXCEPT ![r].st = "rejected", ![r].mk = "get",
                          ![r].merr = "updateProgress failed"]
  /\ wconn' = Append(wconn, Item("mark", r, 0))
  /\ UNCHANGED <<viewVars, importVars, waitq, lookups, clock, serverVars, cancelVars, storeVars, dbVars,
                 left>>

\* the backoff delay of a failed attempt has passed: the job waits again
retryDue(j) ==
  /\ bull[j].state = "delayed"
  /\ bull' = [bull EXCEPT ![j].state = "waiting"]
  /\ waitq' = Append(waitq, j)
  /\ UNCHANGED <<viewVars, importVars, runs, wconn, lookups, clock, serverVars, cancelVars, storeVars,
                 dbVars, left>>

\* markJobCompleted / markJobFailed: the reply to `redisConnection.get(key)`
markGet(r) ==
  /\ wconn # <<>> /\ Head(wconn) = Item("mark", r, 0)
  /\ runs[r].mk = "get"
  /\ LET run == runs[r]
         raw == jobRec[run.job]
     IN
     IF missing(raw)
     THEN \* if (!raw) return
          /\ runs' = [runs EXCEPT ![r].mk = "done",
                                  ![r].st = IF run.st = "marking" THEN "completed" ELSE @]
          /\ bull' = IF run.st = "marking"
                     THEN [bull EXCEPT ![run.job].state = "completed"] ELSE bull
          /\ wconn' = Tail(wconn)
          /\ UNCHANGED clock
     ELSE /\ runs' = [runs EXCEPT ![r].mk = "set",
                        ![r].msnap = IF run.st = "marking" THEN completedWrite(raw, clock)
                                     ELSE failedWrite(raw, run.merr, clock)]
          /\ clock' = clock + 1
          /\ wconn' = Append(Tail(wconn), Item("mark", r, 0))
          /\ UNCHANGED bull
  /\ UNCHANGED <<viewVars, importVars, waitq, lookups, serverVars, cancelVars, storeVars, dbVars,
                 left>>

\* markJobCompleted / markJobFailed: `redisConnection.setex(key, 86400, status)`
markSet(r) ==
  /\ wconn # <<>> /\ Head(wconn) = Item("mark", r, 0)
  /\ runs[r].mk = "set"
  /\ jobRec' = [jobRec EXCEPT ![runs[r].job] = runs[r].msnap]
  /\ runs' = [runs EXCEPT ![r].mk = "key", ![r].msnap = NoRec]
  /\ wconn' = Append(Tail(wconn), Item("mark", r, 0))
  /\ UNCHANGED <<viewVars, importVars, bull, waitq, lookups, clock, serverVars, cancelVars, activeKey, cancelFlag,
                 dbVars, left>>

\* the key is left as it is
activeKeyKept(key) == key

\* await redisConnection.del(ACTIVE_JOB_KEY), whatever job the key names
activeKeyDeleted(key) == 0

\* markJobCompleted: `setex(ACTIVE_JOB_KEY, 60, jobId)`, and processAsinJob returns;
\* markJobFailed: `del(ACTIVE_JOB_KEY)`
markKey(r) ==
  /\ wconn # <<>> /\ Head(wconn) = Item("mark", r, 0)
  /\ runs[r].mk = "key"
  /\ IF runs[r].st = "marking"
     THEN /\ activeKey' = runs[r].job
          /\ runs' = [runs EXCEPT ![r].mk = "done", ![r].st = "completed"]
          /\ bull' = [bull EXCEPT ![runs[r].job].state = "completed"]
     ELSE /\ activeKey' = activeKeyDeleted(activeKey)
          /\ runs' = [runs EXCEPT ![r].mk = "done"]
          /\ UNCHANGED bull
  /\ wconn' = Tail(wconn)
  /\ UNCHANGED <<viewVars, importVars, waitq, lookups, clock, serverVars, cancelVars, jobRec, cancelFlag,
                 dbVars, left>>

processAsinJob(r) ==
  \/ \E k \in Slots : itemAttempt(r, k) \/ itemGet(r, k) \/ itemSet(r, k)
  \/ nextChunk(r)
  \/ lastChunkDone(r)
  \/ attemptFailed(r)
  \/ markGet(r)
  \/ markSet(r)
  \/ markKey(r)

\* ------------------------------------------------------------ TTL expiry
expire ==
  /\ spend("expiries", 1)
  /\ \/ \E j \in Jobs : /\ jobRec[j].status # "absent"
                        /\ jobRec' = [jobRec EXCEPT ![j] = NoRec]
                        /\ UNCHANGED <<activeKey, cancelFlag>>
     \/ /\ activeKey # 0
        /\ activeKey' = 0
        /\ UNCHANGED <<jobRec, cancelFlag>>
     \/ \E j \in cancelFlag : /\ cancelFlag' = cancelFlag \ {j}
                              /\ UNCHANGED <<jobRec, activeKey>>
  /\ UNCHANGED <<viewVars, importVars, serverVars, cancelVars, workerVars, dbVars>>

\* ------------------------------------------------------------ the imports
\* Call m of POST /api/import (importService.startCSVImport) and the background task
\* processCSVImport it leaves running; the job id it draws is m.  Every await of the task
\* on the database or the file system may throw; the rejection reaches the .catch of
\* startCSVImport, which calls markFailed(jobId) without awaiting it.

\* imports are requested one after the other
importInOrder(m) == IF m = 1 THEN TRUE ELSE imp[m - 1].pc = "ended"

\* the buffer, valid and errors that startCSVImport hands to processCSVImport
rowsOf(m) == IF imp[m].file = 0 THEN <<>> ELSE FileList[imp[m].file]
validOf(m) == IF imp[m].file = 0 THEN <<>> ELSE Parsed[imp[m].file].valid
errorsOf(m) == IF imp[m].file = 0 THEN <<>> ELSE Parsed[imp[m].file].errors
hazmatAsins(m) == {validOf(m)[x].asin : x \in {y \in 1..Len(validOf(m)) : validOf(m)[y].hazmat}}

\* the rejection of the task is dropped
uncaught(task) == [task EXCEPT !.pc = "ended", !.threw = TRUE]

\* processCSVImport(...).catch((err) => { logger.error(...); markFailed(jobId); }):
\* markFailed issues its GET
caught(task) == [task EXCEPT !.pc = "failGet", !.threw = TRUE]

\* where the task goes after the `if (valid.length > 0)` block
afterValid(m) == IF Len(errorsOf(m)) > 0 THEN "mkdir" ELSE "summary"

\* where the task goes after the upsert loop
afterBatches(m) == IF hazmatAsins(m) # {} THEN "tag" ELSE afterValid(m)

\* where the task goes after the batch at index i
afterBatch(m, i) ==
  IF i + IMPORT_BATCH_SIZE < Len(validOf(m)) THEN "upsert" ELSE afterBatches(m)

\* parseKeepaCSV(buffer); await redisConnection.setex(key, 3600, initialProgress);
\* processCSVImport(...) runs up to its first await
upload(m, file) ==
  /\ imp[m].pc = "idle"
  /\ importInOrder(m)
  /\ spend("imports", 1)
  /\ impRec' = [impRec EXCEPT ![m] =
       [NoImp EXCEPT !.status = "processing", !.total = Len(Parsed[file].valid)]]
  /\ imp' = [imp EXCEPT ![m] = [NoTask EXCEPT !.pc = "create", !.file = file]]
  /\ UNCHANGED <<viewVars, importFile, tagH, productTag, errorFiles, serverVars, cancelVars,
                 workerVars, storeVars, dbVars>>

\* startCSVImport(buffer, filename, source) with any of the files
startCSVImport(m) == \E file \in Files : upload(m, file)

\* startCSVImport with the file of the call before, once that call's task has ended
reimport(m) == m > 1 /\ imp[m - 1].file \in Files /\ upload(m, imp[m - 1].file)

\* const importFile = await importRepository.create({...})
importCreate(m) ==
  /\ imp[m].pc = "create"
  /\ \/ /\ importFile' = [importFile EXCEPT ![m] =
               [NoImportFile EXCEPT !.state = "created", !.total_rows = Len(rowsOf(m))]]
        /\ imp' = [imp EXCEPT ![m].pc = IF Len(validOf(m)) > 0 THEN "find" ELSE afterValid(m)]
     \/ /\ imp' = [imp EXCEPT ![m] = caught(@)]
        /\ UNCHANGED importFile
  /\ UNCHANGED <<viewVars, impRec, tagH, productTag, errorFiles, serverVars, cancelVars, workerVars,
                 storeVars, dbVars, left>>

\* every row is counted as new
countUpdatedNever(valid, existingAsins) == 0

\* for (const asin of asins) { if (existingAsins.has(asin)) updatedRows++; else
\* insertedRows++; }: the rows, not the asins, are counted
countUpdated(valid, existingAsins) ==
  Cardinality({x \in 1..Len(valid) : valid[x].asin \in existingAsins})

\* every row is counted as inserted, the updated ones too
countInsertedAll(valid, existingAsins) == Len(valid)

\* the else branch of the same loop: insertedRows++
countInserted(valid, existingAsins) ==
  Cardinality({x \in 1..Len(valid) : valid[x].asin \notin existingAsins})

\* const existingRecords = await prisma.product.findMany(...); the counting loop
importFind(m) ==
  /\ imp[m].pc = "find"
  /\ \/ LET valid == validOf(m)
            updated == countUpdated(valid, product)
        IN imp' = [imp EXCEPT ![m].pc = "upsert", ![m].i = 0, ![m].updated = updated,
                              ![m].inserted = countInserted(valid, product)]
     \/ imp' = [imp EXCEPT ![m] = caught(@)]
  /\ UNCHANGED <<viewVars, impRec, importFile, tagH, productTag, errorFiles, serverVars, cancelVars,
                 workerVars, storeVars, dbVars, left>>

\* await productsRepository.upsertMany(valid.slice(i, i + BATCH_SIZE)); then
\* updateProgress issues its GET
importUpsert(m) ==
  /\ imp[m].pc = "upsert"
  /\ \/ LET valid == validOf(m)
            last == IF imp[m].i + IMPORT_BATCH_SIZE < Len(valid)
                    THEN imp[m].i + IMPORT_BATCH_SIZE ELSE Len(valid)
            res == upsertMany(SubSeq(valid, imp[m].i + 1, last), fields)
        IN /\ ~res.threw
           /\ fields' = res.table
           /\ product' = DOMAIN res.table
           /\ imp' = [imp EXCEPT ![m].pc = "progressGet"]
     \/ /\ imp' = [imp EXCEPT ![m] = caught(@)]
        /\ UNCHANGED <<product, fields>>
  /\ UNCHANGED <<viewVars, impRec, importFile, tagH, productTag, errorFiles, serverVars, cancelVars,
                 workerVars, storeVars, sellerStatus, left>>

\* the body of updateProgress after the read
importProgressWrite(progress, processed) ==
  [progress EXCEPT !.processed = processed, !.status = "processing"]

\* the end of the batch is reported whether or not the file has that many rows
processedAfterUncapped(i, valid) == i + IMPORT_BATCH_SIZE

\* const processed = Math.min(i + BATCH_SIZE, valid.length)
processedAfter(i, valid) ==
  IF i + IMPORT_BATCH_SIZE < Len(valid) THEN i + IMPORT_BATCH_SIZE ELSE Len(valid)

\* updateProgress: the reply to `redisConnection.get(key)`
importProgressGet(m) ==
  /\ imp[m].pc = "progressGet"
  /\ LET valid == validOf(m)
         processed == processedAfter(imp[m].i, valid)
     IN
     IF missing(impRec[m])
     THEN imp' = [imp EXCEPT ![m].pc = afterBatch(m, imp[m].i),
                             ![m].i = @ + IMPORT_BATCH_SIZE]
     ELSE imp' = [imp EXCEPT ![m].pc = "progressSet",
                             ![m].snap = importProgressWrite(impRec[m], processed)]
  /\ UNCHANGED <<viewVars, impRec, importFile, tagH, productTag, errorFiles, serverVars, cancelVars,
                 workerVars, storeVars, dbVars, left>>

\* updateProgress: `redisConnection.setex(key, 3600, progress)`; i += BATCH_SIZE
importProgressSet(m) ==
  /\ imp[m].pc = "progressSet"
  /\ impRec' = [impRec EXCEPT ![m] = imp[m].snap]
  /\ imp' = [imp EXCEPT ![m].pc = afterBatch(m, imp[m].i), ![m].i = @ + IMPORT_BATCH_SIZE,
                        ![m].snap = NoImp]
  /\ UNCHANGED <<viewVars, importFile, tagH, productTag, errorFiles, serverVars, cancelVars,
                 workerVars, storeVars, dbVars, left>>

\* const hazmatTag = await prisma.tag.upsert({ where: { name: "H" }, ... })
importTag(m) ==
  /\ imp[m].pc = "tag"
  /\ \/ /\ tagH' = TRUE
        /\ imp' = [imp EXCEPT ![m].pc = "links"]
     \/ /\ imp' = [imp EXCEPT ![m] = caught(@)]
        /\ UNCHANGED tagH
  /\ UNCHANGED <<viewVars, impRec, importFile, productTag, errorFiles, serverVars, cancelVars,
                 workerVars, storeVars, dbVars, left>>

\* await prisma.productTag.createMany({ data: hazmatAsins..., skipDuplicates: true })
importLinks(m) ==
  /\ imp[m].pc = "links"
  /\ \/ /\ productTag' = productTag \cup hazmatAsins(m)
        /\ imp' = [imp EXCEPT ![m].pc = afterValid(m)]
     \/ /\ imp' = [imp EXCEPT ![m] = caught(@)]
        /\ UNCHANGED productTag
  /\ UNCHANGED <<viewVars, impRec, importFile, tagH, errorFiles, serverVars, cancelVars,
                 workerVars, storeVars, dbVars, left>>

\* await fs.mkdir("uploads/errors", { recursive: true })
importMkdir(m) ==
  /\ imp[m].pc = "mkdir"
  /\ \/ imp' = [imp EXCEPT ![m].pc = "writeFile"]
     \/ imp' = [imp EXCEPT ![m] = caught(@)]
  /\ UNCHANGED <<viewVars, impRec, importFile, tagH, productTag, errorFiles, serverVars, cancelVars,
                 workerVars, storeVars, dbVars, left>>

\* errorFilePath, when the file of import m was written
hasErrorFile(m) == \E f \in errorFiles : f.import = m

\* await fs.writeFile(errorFilePath, JSON.stringify(errors, null, 2), "utf-8")
importWriteFile(m) ==
  /\ imp[m].pc = "writeFile"
  /\ \/ /\ errorFiles' = errorFiles \cup {[import |-> m, errors |-> errorsOf(m)]}
        /\ imp' = [imp EXCEPT ![m].pc = "summary"]
     \/ /\ imp' = [imp EXCEPT ![m] = caught(@)]
        /\ UNCHANGED errorFiles
  /\ UNCHANGED <<viewVars, impRec, importFile, tagH, productTag, serverVars, cancelVars,
                 workerVars, storeVars, dbVars, left>>

\* await importRepository.updateSummary(importFile.id, {...}); then markCompleted issues
\* its GET
importSummary(m) ==
  /\ imp[m].pc = "summary"
  /\ \/ /\ importFile' = [importFile EXCEPT ![m] =
               [@ EXCEPT !.state = "summarised", !.inserted_rows = imp[m].inserted,
                         !.updated_rows = imp[m].updated,
                         !.failed_rows = Len(errorsOf(m)), !.error_file = hasErrorFile(m)]]
        /\ imp' = [imp EXCEPT ![m].pc = "completeGet"]
     \/ /\ imp' = [imp EXCEPT ![m] = caught(@)]
        /\ UNCHANGED importFile
  /\ UNCHANGED <<viewVars, impRec, tagH, productTag, errorFiles, serverVars, cancelVars, workerVars,
                 storeVars, dbVars, left>>

\* the whole list is shown
shownErrorsAll(errors) == errors

\* errors.slice(0, 50)
shownErrors(errors) == Take(errors, ERRORS_SHOWN)

\* the summary processCSVImport hands to markCompleted
summaryOf(m) ==
  [present |-> TRUE, total_rows |-> Len(rowsOf(m)), inserted_rows |-> imp[m].inserted,
   updated_rows |-> imp[m].updated, failed_rows |-> Len(errorsOf(m)),
   hasErrors |-> Len(errorsOf(m)) > 0, errors |-> shownErrors(errorsOf(m))]

\* the body of markCompleted after the read
importCompletedWrite(progress, summary, now) ==
  [progress EXCEPT !.status = "completed", !.completedAt = now, !.summary = summary]

\* the body of markFailed after the read
importFailedWrite(progress, now) ==
  [progress EXCEPT !.status = "failed", !.completedAt = now]

\* markCompleted / markFailed: the reply to `redisConnection.get(key)`
importMarkGet(m) ==
  /\ imp[m].pc \in {"completeGet", "failGet"}
  /\ IF missing(impRec[m])
     THEN /\ imp' = [imp EXCEPT ![m].pc = "ended"]
          /\ UNCHANGED clock
     ELSE /\ imp' = [imp EXCEPT ![m].pc = IF @ = "completeGet" THEN "completeSet" ELSE "failSet",
                        ![m].snap = IF imp[m].pc = "completeGet"
                                    THEN importCompletedWrite(impRec[m], summaryOf(m), clock)
                                    ELSE importFailedWrite(impRec[m], clock)]
          /\ clock' = clock + 1
  /\ UNCHANGED <<viewVars, impRec, importFile, tagH, productTag, errorFiles, serverVars, cancelVars,
                 bull, waitq, runs, wconn, lookups, storeVars, dbVars, left>>

\* markCompleted / markFailed: `redisConnection.setex(key, 3600, progress)`
importMarkSet(m) ==
  /\ imp[m].pc \in {"completeSet", "failSet"}
  /\ impRec' = [impRec EXCEPT ![m] = imp[m].snap]
  /\ imp' = [imp EXCEPT ![m].pc = "ended", ![m].snap = NoImp]
  /\ UNCHANGED <<viewVars, importFile, tagH, productTag, errorFiles, serverVars, cancelVars,
                 workerVars, storeVars, dbVars, left>>

processCSVImport(m) ==
  \/ importCreate(m)
  \/ importFind(m)
  \/ importUpsert(m)
  \/ importProgressGet(m)
  \/ importProgressSet(m)
  \/ importTag(m)
  \/ importLinks(m)
  \/ importMkdir(m)
  \/ importWriteFile(m)
  \/ importSummary(m)
  \/ importMarkGet(m)
  \/ importMarkSet(m)

\* the TTL of an import record (3600 s) runs out
importExpire(m) ==
  /\ impRec[m].status # "absent"
  /\ spend("expiries", 1)
  /\ impRec' = [impRec EXCEPT ![m] = NoImp]
  /\ UNCHANGED <<viewVars, imp, importFile, tagH, productTag, errorFiles, serverVars, cancelVars,
                 workerVars, storeVars, dbVars>>

\* ------------------------------------------------------------------ polls
\* One client polls: a poll is a chain of reads, and the next poll starts when the
\* answer to the last one has arrived.
answered(kind, rec, summary, progress) ==
  [NoPoll EXCEPT !.res = [kind |-> kind, rec |-> rec, summary |-> summary, imp |-> progress]]

\* the read takes the key with it
afterGetDel(recs, j) == [recs EXCEPT ![j] = NoRec]

\* what `redisConnection.get(JOB_STATUS_PREFIX + jobId)` leaves of the job records
afterGet(recs, j) == recs

\* every row of the table is counted
countByStatusAll(asins, table) ==
  LET count(status) == Cardinality({a \in DOMAIN table : table[a].status = status})
  IN [present |-> TRUE, allowed |-> count("allowed"), gated |-> count("gated"),
      restricted |-> count("restricted"), unknown |-> count("unknown")]

\* prisma.sellerStatus.findMany({ where: { asin: { in: asins } } }) and the four filters
countByStatus(asins, table) ==
  LET count(status) == Cardinality({x \in 1..Len(asins) : table[asins[x]].status = status})
  IN [present |-> TRUE, allowed |-> count("allowed"), gated |-> count("gated"),
      restricted |-> count("restricted"), unknown |-> count("unknown")]

\* getJobStatus(jobId) up to its call of getJobSummary: the GET, `if (!raw) return null`,
\* and for a running or completed record `await getJobSummary(jobId)`
statusRead(kind, j) ==
  LET raw == jobRec[j] IN
  /\ jobRec' = afterGet(jobRec, j)
  /\ poll' = IF raw.status = "absent" THEN answered(kind, NoRec, NoCounts, NoImp)
             ELSE IF raw.status \in {"running", "completed"}
                  THEN [NoPoll EXCEPT !.pc = "summaryGet", !.kind = kind, !.job = j,
                                      !.snap = raw]
                  ELSE answered(kind, raw, NoCounts, NoImp)

\* getJobSummary(jobId) up to findMany: the GET, `if (!raw) return null`,
\* `if (asins.length === 0) return null`
summaryRead(kind, j, snap) ==
  LET raw == jobRec[j] IN
  /\ jobRec' = afterGet(jobRec, j)
  /\ poll' = IF raw.status = "absent" \/ Len(raw.asins) = 0
             THEN answered(kind, snap, NoCounts, NoImp)
             ELSE [NoPoll EXCEPT !.pc = "summaryFind", !.kind = kind, !.job = j,
                                 !.snap = snap, !.asins = raw.asins]

\* GET /api/processing/status/:jobId
getJobStatus(j) ==
  /\ poll.pc = "idle"
  /\ spend("polls", 1)
  /\ statusRead("status", j)
  /\ UNCHANGED <<probe, refused, importVars, serverVars, cancelVars, workerVars, activeKey,
                 cancelFlag, dbVars>>

\* GET /api/processing/status: const activeJobId = await redisConnection.get(ACTIVE_JOB_KEY)
getActiveJobStatus ==
  /\ poll.pc = "idle"
  /\ spend("polls", 1)
  /\ poll' = IF activeKey = 0 THEN answered("active", NoRec, NoCounts, NoImp)
             ELSE [NoPoll EXCEPT !.pc = "activeRecord", !.kind = "active", !.job = activeKey]
  /\ UNCHANGED <<probe, refused, importVars, serverVars, cancelVars, workerVars, storeVars,
                 dbVars>>

\* getActiveJobStatus: return processingService.getJobStatus(activeJobId)
pollActiveRecord ==
  /\ poll.pc = "activeRecord"
  /\ statusRead("active", poll.job)
  /\ UNCHANGED <<probe, refused, importVars, serverVars, cancelVars, workerVars, activeKey,
                 cancelFlag, dbVars, left>>

\* getJobSummary(jobId) called on its own
getJobSummary(j) ==
  /\ poll.pc = "idle"
  /\ spend("polls", 1)
  /\ summaryRead("summary", j, NoRec)
  /\ UNCHANGED <<probe, refused, importVars, serverVars, cancelVars, workerVars, activeKey,
                 cancelFlag, dbVars>>

\* getJobSummary called by getJobStatus: its GET
pollSummaryGet ==
  /\ poll.pc = "summaryGet"
  /\ summaryRead(poll.kind, poll.job, poll.snap)
  /\ UNCHANGED <<probe, refused, importVars, serverVars, cancelVars, workerVars, activeKey,
                 cancelFlag, dbVars, left>>

\* getJobSummary: the reply to findMany, and `return { ...status, summary }`
pollSummaryFind ==
  /\ poll.pc = "summaryFind"
  /\ poll' = answered(poll.kind, poll.snap, countByStatus(poll.asins, sellerStatus), NoImp)
  /\ UNCHANGED <<probe, refused, importVars, serverVars, cancelVars, workerVars, storeVars,
                 dbVars, left>>

\* GET /api/import/progress/:jobId: importService.getProgress(jobId)
getProgress(m) ==
  /\ poll.pc = "idle"
  /\ spend("polls", 1)
  /\ poll' = answered("import", NoRec, NoCounts, impRec[m])
  /\ UNCHANGED <<probe, refused, importVars, serverVars, cancelVars, workerVars, storeVars,
                 dbVars>>

polling ==
  \/ \E j \in Jobs : getJobStatus(j)
  \/ getActiveJobStatus
  \/ pollActiveRecord
  \/ \E j \in Jobs : getJobSummary(j)
  \/ pollSummaryGet
  \/ pollSummaryFind
  \/ \E m \in Imports : getProgress(m)

\* ------------------------------------------------------------------ Spec
MaxRuns == MaxJobs * QUEUE_ATTEMPTS

Next ==
  \/ \E c \in Jobs : startProcessing(c)
  \/ cancelJob
  \/ workerTake
  \/ \E r \in 1..MaxRuns : processAsinJob(r)
  \/ \E j \in Jobs : retryDue(j)
  \/ expire
  \/ polling
  \/ \E m \in Uploads : startCSVImport(m)
  \/ \E m \in Uploads : processCSVImport(m)
  \/ \E m \in Uploads : importExpire(m)

Spec == Init /\ [][Next]_vars

\* The imports alone, over a Product table that holds up to ImportProducts rows.  The
\* background task is a chain of promise continuations on the event loop of the server:
\* once a step can run, it runs.
ImportInit ==
  /\ Fresh
  /\ scen \in {Scenario(n, 0, 0, 0, 0, 1, 0, 0, MaxImports + 1) : n \in 0..ImportProducts}
  /\ product = 1..scen.products
  /\ fields = [a \in product |-> KnownColumns]

ImportNext ==
  \/ \E m \in Uploads : startCSVImport(m)
  \/ \E m \in Uploads : processCSVImport(m)
  \/ \E m \in Uploads : importExpire(m)

ImportSpec ==
  /\ ImportInit
  /\ [][ImportNext]_vars
  /\ \A m \in Uploads : WF_vars(processCSVImport(m))

\* An upload followed by uploads of the same file, each after the task before it ended.
ReimportNext ==
  \/ startCSVImport(1)
  \/ \E m \in Imports : reimport(m)
  \/ \E m \in Imports : processCSVImport(m)
  \/ \E m \in Imports : importExpire(m)

ReimportSpec == ImportInit /\ [][ReimportNext]_vars

\* The progress writes of one job on their own: a start call has returned for a job of n
\* items, n up to MaxTotal, and updateJobProgress is called with the counts the worker
\* passes, 1..n, in any order.
ProgressInit ==
  \E n \in 1..MaxTotal :
     LET asins == [x \in 1..n |-> x] IN
     /\ Quiet
     /\ Unchecked
  /\ Unchecked
     /\ probe = NoProbe
     /\ scen = Scenario(n, 1, 0, 0, 0, 0, n, 0, 0)
     /\ used = [NoUse EXCEPT !.calls = 1]
     /\ product = 1..n
     /\ fields = [a \in product |-> KnownColumns]
     /\ jobRec = [j \in Jobs |-> IF j = 1 THEN initialStatus(asins) ELSE NoRec]
     /\ activeKey = 1
     /\ pc = [c \in Jobs |-> IF c = 1 THEN "started" ELSE "idle"]
     /\ jobData = [c \in Jobs |-> IF c = 1 THEN asins ELSE <<>>]
     /\ bull = [j \in Jobs |-> [state |-> IF j = 1 THEN "active" ELSE "none",
                                 attemptsMade |-> 0]]
     /\ waitq = <<>>

\* processingService.updateJobProgress(jobId, processed, total), from its GET to its SETEX
updateJobProgress(j, count) ==
  /\ jobRec[j].status # "absent"
  /\ jobRec' = [jobRec EXCEPT ![j] = progressWrite(@, count, Len(jobData[j]))]
  /\ UNCHANGED <<viewVars, importVars, serverVars, cancelVars, workerVars, activeKey, cancelFlag,
                 dbVars, left>>

ProgressNext == \E j \in Jobs, count \in 1..MaxTotal :
                   count <= Len(jobData[j]) /\ updateJobProgress(j, count)

ProgressSpec == ProgressInit /\ [][ProgressNext]_vars

\* startProcessing has returned for a job over asins, of a table of n products: the
\* record is written, the key is set and the job waits in the queue
Enqueued(asins, n) ==
  /\ Quiet
  /\ probe = NoProbe
  /\ used = [NoUse EXCEPT !.calls = 1]
  /\ product = 1..n
  /\ fields = [a \in product |-> KnownColumns]
  /\ jobRec = [j \in Jobs |-> IF j = 1 THEN initialStatus(asins) ELSE NoRec]
  /\ activeKey = 1
  /\ pc = [c \in Jobs |-> IF c = 1 THEN "started" ELSE "idle"]
  /\ jobData = [c \in Jobs |-> IF c = 1 THEN asins ELSE <<>>]
  /\ bull = [j \in Jobs |-> [state |-> IF j = 1 THEN "waiting" ELSE "none",
                              attemptsMade |-> 0]]
  /\ waitq = <<1>>

\* A job over some of the products, polled while the worker processes it.  The job was
\* started with mode "unchecked" over a table of PollProducts + 1 products; the products
\* outside the job have the status an earlier job stored for them.
SummaryInit ==
  \E mine \in SUBSET (1..(PollProducts + 1)) \ {{}} :
     /\ Enqueued(Ascending(mine), PollProducts + 1)
     /\ scen = Scenario(PollProducts + 1, 1, 0, 0, 0, 0, PollProducts + 1, Polls, 0)
     /\ sellerStatus = [a \in Asins |->
                          IF a \in (1..(PollProducts + 1)) \ mine
                          THEN [status |-> mapReason(Listing(a)), checked |-> TRUE]
                          ELSE NoRow]

SummaryNext ==
  \/ workerTake
  \/ \E r \in 1..MaxRuns, k \in Slots : itemAttempt(r, k) \/ itemGet(r, k) \/ itemSet(r, k)
  \/ \E r \in 1..MaxRuns : lastChunkDone(r) \/ markGet(r) \/ markSet(r) \/ markKey(r)
  \/ \E j \in Jobs : getJobStatus(j)
  \/ getActiveJobStatus
  \/ pollActiveRecord
  \/ pollSummaryGet
  \/ pollSummaryFind

SummarySpec == SummaryInit /\ [][SummaryNext]_vars

\* The worker alone on a job of FailProducts + 1 items, one of whose attempts may fail:
\* the callbacks of the failed attempt that are still waiting for the marketplace go on
\* while BullMQ runs the job again.  There are answers for the item that fails, for the
\* items of the next attempt and for one late callback.
WorkerInit ==
  /\ Enqueued([x \in 1..(FailProducts + 1) |-> x], FailProducts + 1)
  /\ Unchecked
  /\ scen = Scenario(FailProducts + 1, 1, 0, 0, 1, 0, FailProducts + 3, 0, 0)

WorkerNext ==
  \/ workerTake
  \/ \E r \in 1..MaxRuns, k \in Slots : itemAttempt(r, k) \/ itemGet(r, k) \/ itemSet(r, k)
  \/ \E r \in 1..MaxRuns : lastChunkDone(r) \/ attemptFailed(r)
  \/ \E r \in 1..MaxRuns : markGet(r) \/ markSet(r) \/ markKey(r)
  \/ \E j \in Jobs : retryDue(j)

WorkerSpec == WorkerInit /\ [][WorkerNext]_vars

\* ================================================================== claims
Range(seq) == {seq[x] : x \in 1..Len(seq)}
Terminal == {"completed", "failed"}

\* ------------------------------------------------- the client on its own
\* checkAsinEligibility(asin) called once, against any sequence of responses
clientCall ==
  /\ ~probe.called
  /\ probe' = [probe EXCEPT !.called = TRUE,
                            !.res = checkAsinEligibility(probe.script, MAX_RETRIES)]
  /\ UNCHANGED <<refused, poll, importVars, serverVars, cancelVars, workerVars, storeVars, dbVars,
                 left>>

ClientInit ==
  /\ Quiet
  /\ Unchecked
  /\ Unstarted
  /\ probe \in {[NoProbe EXCEPT !.script = script] : script \in ClientScripts}
  /\ scen = Scenario(0, 0, 0, 0, 0, 0, 0, 0, 0)
  /\ product = {}
  /\ fields = <<>>

ClientNext == clientCall

ClientSpec == ClientInit /\ [][ClientNext]_vars

\* ------------------------------------------------- the parser on its own
\* the files of up to MaxRows data rows under an ASIN header
RECURSIVE CellSeqs(_)
CellSeqs(n) ==
  IF n = 0 THEN {<<>>}
  ELSE CellSeqs(n - 1) \cup {Append(cells, cell) : cells \in CellSeqs(n - 1), cell \in AsinCells}

\* parseKeepaCSV(csvBuffer) called once
parseCall ==
  /\ ~probe.called
  /\ probe' = [probe EXCEPT !.called = TRUE, !.res = parseKeepaCSV(rawRows(probe.script))]
  /\ UNCHANGED <<refused, poll, importVars, serverVars, cancelVars, workerVars, storeVars, dbVars,
                 left>>

ParseInit ==
  /\ Quiet
  /\ Unchecked
  /\ Unstarted
  /\ probe \in {[NoProbe EXCEPT !.script = cells] : cells \in CellSeqs(MaxRows)}
  /\ scen = Scenario(0, 0, 0, 0, 0, 0, 0, 0, 0)
  /\ product = {}
  /\ fields = <<>>

ParseNext == parseCall

ParseSpec == ParseInit /\ [][ParseNext]_vars

\* C1: whatever the interleaving of concurrent startProcessing calls, no two processing
\* job records have status running at the same time.
C1_OneRunningJob ==
  Cardinality({j \in Jobs : jobRec[j].status = "running"}) <= 1

\* C2: once a processing job record has status completed or failed, no later operation
\* changes its status (the record may only expire).
C2_TerminalIsFinal ==
  [][\A j \in Jobs :
       jobRec[j].status \in Terminal => jobRec'[j].status \in {jobRec[j].status, "absent"}]_vars

\* C3: while the record of a job exists, its processed value never decreases from one
\* write to the next and never exceeds total.
C3_ProcessedMonotone ==
  [][\A j \in Jobs :
       (jobRec[j].status # "absent" /\ jobRec'[j].status # "absent") =>
          /\ jobRec'[j].processed >= jobRec[j].processed
          /\ jobRec'[j].processed <= jobRec'[j].total]_vars

\* C4: once the cancel flag of a job was set while one of its chunks was in flight, the
\* run dispatches no later chunk and does not go on to markJobCompleted.
C4_CancelHonoured ==
  \A r \in DOMAIN runs :
     cancelAt[runs[r].job] >= 0 =>
        /\ runs[r].i <= cancelAt[runs[r].job]
        /\ runs[r].st \notin {"marking", "completed"}

\* C5: when a processing run has completed, every item of it whose lookups all failed is
\* still selected by mode "unchecked".
C5_FailedLookupStaysUnchecked ==
  \A r \in DOMAIN runs :
     runs[r].st = "completed" =>
        \A a \in Range(asinsOf(runs[r])) :
           lookups[a] = "failedOnly" =>
              a \in Range(findAsinsForProcessing("unchecked", product, sellerStatus))

\* C6: a startProcessing call that finds the active-job key pointing to a running job
\* ends with the conflict error, and neither that step nor anything the call does later
\* writes a job record, the active-job key or the queue.
C6_ConflictChangesNothing ==
  [][\A c \in Jobs :
       /\ (pc[c] = "status" /\ jobRec[seen[c]].status = "running" /\ pc'[c] # pc[c]) =>
             /\ pc'[c] = "conflict"
             /\ UNCHANGED <<jobRec, activeKey, cancelFlag, bull, waitq, jobData>>
       /\ pc[c] = "conflict" =>
             /\ pc'[c] = "conflict"
             /\ jobRec'[c] = NoRec /\ activeKey' # c /\ bull'[c].state = "none"
             /\ jobData'[c] = <<>>]_vars

C6_Witness ==
  \E c \in Jobs : pc[c] = "conflict" /\ jobRec[seen[c]].status = "running"

\* C7: a startProcessing call is rejected with the conflict error only when it found the
\* active-job key pointing to a running record; with the key absent, or pointing to an
\* expired, completed or failed record, and a non-empty selection, it writes the running
\* record and the active-job key and, the queue accepting the job, returns started.
C7_StaleKeyReclaimable ==
  [][\A c \in Jobs :
       pc'[c] # pc[c] =>
          /\ (pc[c] = "idle" /\ pc'[c] # "badMode") =>
                pc'[c] = IF activeKey = 0 THEN "find" ELSE "status"
          /\ (pc[c] = "status" /\ jobRec[seen[c]].status \in Terminal \cup {"absent"}) =>
                pc'[c] = "find"
          /\ pc'[c] = "conflict" => (pc[c] = "status" /\ jobRec[seen[c]].status = "running")
          /\ pc'[c] = "empty" =>
                \E mode \in VALID_MODES :
                   Len(findAsinsForProcessing(mode, product, sellerStatus)) = 0
          /\ (pc[c] = "find" /\ pc'[c] # "empty") => pc'[c] = "writeStatus"
          /\ pc[c] = "writeStatus" => (jobRec'[c].status = "running" /\ pc'[c] = "writeActive")
          /\ pc[c] = "writeActive" => (activeKey' = c /\ pc'[c] = "enqueue")
          /\ (pc[c] = "enqueue" /\ used' = used) =>
                (pc'[c] = "started" /\ bull'[c].state = "waiting")]_vars

C7_Witness ==
  \E c \in Jobs :
     /\ pc[c] = "started"
     /\ seen[c] # 0
     /\ rearmed[c]
     /\ jobRec[c].status = "running"

C9_ItemFailureNeverAborts ==
  \A r \in DOMAIN runs :
     LET run == runs[r]
         N == totalCount(run)
     IN
     /\ run.st = "rejected" => used.throws > 0
     /\ run.st = "running" =>
           run.processed = run.i + Cardinality({k \in Slots :
                                      run.slots[k].pc \in {"get", "set", "done", "threw"}})
     /\ run.st \in {"marking", "completed"} =>
           /\ run.processed = N
           /\ \A a \in Range(asinsOf(run)) : lookups[a] # "none"
     /\ (run.st = "completed" /\ used.throws = 0 /\ used.expiries = 0) =>
           /\ jobRec[run.job].status = "completed"
           /\ jobRec[run.job].processed = N

C9_Witness ==
  \E r \in DOMAIN runs :
     /\ runs[r].st = "completed"
     /\ totalCount(runs[r]) > BATCH_SIZE
     /\ used.itemFaults > 0
     /\ jobRec[runs[r].job].processed = totalCount(runs[r])

C11_SinkCountsUp ==
  \A r \in DOMAIN runs :
     /\ runs[r].sink = [x \in 1..runs[r].processed |-> x]
     /\ runs[r].st \in {"marking", "completed"} => Len(runs[r].sink) = totalCount(runs[r])

C11_Witness ==
  \E r \in DOMAIN runs :
     /\ runs[r].st = "completed"
     /\ totalCount(runs[r]) > BATCH_SIZE
     /\ runs[r].sink = [x \in 1..totalCount(runs[r]) |-> x]
     /\ cancelFlag = {}
\* C12: when the cancel flag of a job was set while the chunk starting at index i (chunk
\* k = i / C + 1) was in flight, the run counts at most the items up to the end of
\* that chunk: processed <= k * C, in the counter and in the record.
C12_CountStopsAtChunkEnd ==
  \A r \in DOMAIN runs :
     cancelAt[runs[r].job] >= 0 =>
        /\ runs[r].processed <= cancelAt[runs[r].job] + BATCH_SIZE
        /\ jobRec[runs[r].job].processed <= cancelAt[runs[r].job] + BATCH_SIZE
\* C13: a cancellation request that finds nothing to cancel (no active key, or a record
\* that is missing or not running) is answered with a non-error response.
C13_NothingToCancelIsNoError ==
  cpc = "nothing" => ~cancelJobResponse(cancelJobResult).error

\* (C13, the part that holds) such a request sets no flag and writes no record or key
C13_NothingToCancelWritesNothing ==
  [][cpc' = "nothing" /\ cpc # "nothing" => UNCHANGED storeVars]_vars
\* C14: a call of checkAsinEligibility in which every request failed (the retries were
\* used up, or an error that is not retried came back) ends by throwing to its caller.
C14_ExhaustedRetriesThrow ==
  probe.called /\ probe.res.failed => probe.res.threw
\* C15: when upsertMany has written a batch, every product that existed before keeps,
\* in each column for which its incoming record had no value (null or absent), the
\* value stored before, and takes the incoming value in the other columns.
C15_NullPreservingUpsert ==
  [][\A m \in Imports :
       imp[m].pc = "upsert" /\ imp'[m].pc = "progressGet" =>
          \A x \in 1..Len(validOf(m)) :
             LET a == validOf(m)[x].asin
                 incoming == valuesOf(validOf(m)[x])
             IN x > imp[m].i /\ x <= imp[m].i + IMPORT_BATCH_SIZE /\ a \in DOMAIN fields =>
                  \A col \in DOMAIN incoming :
                     fields'[a][col] = IF incoming[col] = Null THEN fields[a][col]
                                      ELSE incoming[col]]_vars
C17_NoRecordWithZeroTotal ==
  /\ \A j \in Jobs : jobRec[j].status # "absent" => jobRec[j].total > 0
  /\ \A m \in Imports : impRec[m].status # "absent" => impRec[m].total > 0

\* (C17, the part that holds) no processing job's record has total = 0
C17_NoJobWithZeroTotal ==
  \A j \in Jobs : jobRec[j].status # "absent" => jobRec[j].total > 0
\* C18: a start request refused for its mode or for an empty selection is answered with
\* an error, and it writes nothing: the step that refuses it changes no key of the
\* progress store and no queue entry, no record, active key or queue entry ever
\* carries its id, and no job exists whose item list is empty.
C18_RejectedStartWritesNothing ==
  /\ [](\A c \in Jobs :
          /\ pc[c] \in {"badMode", "empty"} =>
               /\ startJobResponse(pc[c]).error
               /\ jobRec[c].status = "absent"
               /\ activeKey # c
               /\ bull[c].state = "none"
               /\ c \notin Range(waitq)
          /\ jobRec[c].status # "absent" \/ bull[c].state # "none" \/ activeKey = c =>
               jobData[c] # <<>>)
  /\ [][\A c \in Jobs :
          pc'[c] \in {"badMode", "empty"} /\ pc[c] # pc'[c] =>
             UNCHANGED <<storeVars, bull, waitq, dbVars>>]_vars

C18_Witness ==
  \E c \in Jobs :
     /\ pc[c] = "empty" /\ jobData[c] = <<>> /\ jobRec[c].status = "absent"
     /\ startJobResponse(pc[c]).status = 500
     /\ \E d \in Jobs : jobRec[d].status = "completed"
\* C19: a start request in the mode "gated" is accepted: the controller never refuses
\* it for its mode.
C19_GatedModeAccepted ==
  \A c \in Jobs : refused[c] # "gated"
\* C20: a step of a poll (getJobStatus, getActiveJobStatus, getJobSummary, the import
\* getProgress) changes no job record, active-job key or cancel flag, no import
\* record, no table of the record store, and nothing of the queue or of the runs.
C20_PollsChangeNothing ==
  [][poll' # poll \/ used'.polls # used.polls =>
       UNCHANGED <<storeVars, dbVars, importVars, workerVars, serverVars, cancelVars>>]_vars

C20_Witness ==
  /\ poll.pc = "idle"
  /\ poll.res.kind = "active"
  /\ poll.res.rec.status = "running"
  /\ poll.res.rec.processed > 0
  /\ poll.res.summary.present
  /\ \E j \in Jobs : jobRec[j].status = "completed" /\ jobRec[j].processed = PollProducts

\* C21: in every stored processing job record, percentage equals
\* round(processed / total * 100) with halves rounded up.
C21_PercentageIsRounded ==
  \A j \in Jobs :
     jobRec[j].status # "absent" =>
        jobRec[j].percentage = Round100(jobRec[j].processed, jobRec[j].total)

\* (C21, the part that holds) the percentage is the one Math.round gives for the stored
\* processed and total, it is never more than one below the exact rounding, and it is
\* the exact rounding whenever processed / total * 100 is not a half
C21_PercentageIsMathRound ==
  \A j \in Jobs :
     LET rec == jobRec[j] IN
     rec.status # "absent" =>
        /\ rec.percentage = percentageOf(rec.processed, rec.total)
        /\ rec.percentage \in {Round100(rec.processed, rec.total),
                               Round100(rec.processed, rec.total) - 1}
        /\ (200 * rec.processed) % (2 * rec.total) # rec.total =>
              rec.percentage = Round100(rec.processed, rec.total)
\* C22: the completedAt of a job record is written once, at the first transition into a
\* terminal status: a record has it exactly when its status is terminal, and while the
\* record exists no later write changes it.
C22_CompletedAtWrittenOnce ==
  /\ [](\A j \in Jobs :
          jobRec[j].status # "absent" =>
             (jobRec[j].completedAt # 0 <=> jobRec[j].status \in Terminal))
  /\ [][\A j \in Jobs :
          jobRec[j].completedAt # 0 /\ jobRec'[j].status # "absent" =>
             jobRec'[j].completedAt = jobRec[j].completedAt]_vars
\* C23: a processing job record carries an error only if its status is failed: a
\* running or completed record has none.
C23_ErrorOnlyWhenFailed ==
  \A j \in Jobs : jobRec[j].error # "" => jobRec[j].status = "failed"
C25_CompletedStaysActive ==
  \A r \in DOMAIN runs :
     LET j == runs[r].job IN
     /\ \/ runs[r].st = "marking" /\ runs[r].mk = "key"
        \/ runs[r].st = "completed" /\ runs[r].mk = "done"
     /\ jobRec[j].status = "completed"
     /\ used.expiries = 0
     /\ \A c \in Jobs \ {j} : pc[c] \notin {"enqueue", "enqueueFailed", "started"}
     => activeKey = j
\* (C25, the part that holds) the same, for a job none of whose attempts failed
C25_CompletedStaysActiveFirstAttempt ==
  \A r \in DOMAIN runs :
     LET j == runs[r].job IN
     /\ \/ runs[r].st = "marking" /\ runs[r].mk = "key"
        \/ runs[r].st = "completed" /\ runs[r].mk = "done"
     /\ jobRec[j].status = "completed"
     /\ used.expiries = 0
     /\ bull[j].attemptsMade = 0
     /\ \A c \in Jobs \ {j} : pc[c] \notin {"enqueue", "enqueueFailed", "started"}
     => activeKey = j
\* C26: a call of checkAsinEligibility ends after at most MAX_RETRIES + 1 requests; every
\* request but its last was answered 429 or with a status >= 500; it slept once
\* before each retry; and it issued no request after a response of another kind.
C26_RetriesBounded ==
  probe.called =>
     LET n == probe.res.requests IN
     /\ n \in 1..(MAX_RETRIES + 1)
     /\ Len(probe.res.delays) = n - 1
     /\ \A x \in 1..(n - 1) : probe.script[x].http = 429 \/ probe.script[x].http >= 500
     /\ \A x \in 1..(MAX_RETRIES + 1) :
          probe.script[x].http \notin {429, 500} => n <= x

C26_Witness ==
  /\ probe.called
  /\ probe.res.requests = MAX_RETRIES + 1
  /\ probe.res.status = "gated"
  /\ probe.script[1].http = 429 /\ probe.script[2].http = 500
\* C27: the delays slept before the successive retries of one call form a geometric
\* sequence with a ratio greater than 1.
C27_BackoffIsGeometric ==
  probe.called =>
     LET d == probe.res.delays IN
     /\ \A x \in 2..Len(d) : d[x] > d[x - 1]
     /\ \A x \in 2..(Len(d) - 1) : d[x] * d[x] = d[x - 1] * d[x + 1]

\* (C27, the part that holds) the delay before retry x is x seconds: the delays
\* increase, by a constant step
C27_BackoffIsLinear ==
  probe.called =>
     \A x \in 1..Len(probe.res.delays) : probe.res.delays[x] = x * 1000
\* C28: when a response that is retried carries the provider's Retry-After value of N
\* seconds, the call sleeps N seconds before its next request.
C28_RetryAfterHonoured ==
  probe.called =>
     \A x \in 1..Len(probe.res.delays) :
        probe.script[x].retryAfter > 0 =>
           probe.res.delays[x] = probe.script[x].retryAfter * 1000
\* the statuses a lookup may return
SellerStatusResult == {"allowed", "gated", "requires_invoice", "restricted", "unknown"}

\* C29: whatever the responses, checkAsinEligibility returns one of the fixed statuses
\* and does not throw; a 200 response without restriction gives allowed; and a 200
\* response whose new_new restriction has no reason code, or one outside the known
\* vocabulary, gives unknown.
C29_MappingTotal ==
  probe.called =>
     LET last == probe.script[probe.res.requests] IN
     /\ probe.res.status \in SellerStatusResult
     /\ ~probe.res.threw
     /\ last.http = 200 /\ last.reason = "none" => probe.res.status = "allowed"
     /\ last.http = 200 /\ last.reason \in {"noReason", "SOME_NEW_CODE"} =>
           probe.res.status = "unknown"

\* (C29, the part that holds) the same, but for the missing reason code, which gives
\* allowed
C29_MissingReasonIsAllowed ==
  probe.called =>
     LET last == probe.script[probe.res.requests] IN
     /\ probe.res.status \in SellerStatusResult
     /\ ~probe.res.threw
     /\ last.http = 200 /\ last.reason \in {"none", "otherCondition", "noReason"} =>
           probe.res.status = "allowed"
     /\ last.http = 200 /\ last.reason \in {"ASIN_NOT_FOUND", "SOME_NEW_CODE"} =>
           probe.res.status = "unknown"
\* C30: when the background task of an import threw and has ended, its progress
\* record, unless it expired, has status failed and carries the message of the
\* exception as its error.
C30_FailedImportCarriesMessage ==
  \A m \in Imports :
     imp[m].pc = "ended" /\ imp[m].threw /\ impRec[m].status # "absent" =>
        /\ impRec[m].status = "failed"
        /\ impRec[m].error # ""
\* C31: parseKeepaCSV puts every data row in exactly one of valid and errors, so that
\* valid.length + errors.length = totalRows; a row whose ASIN is absent or blank is in
\* errors only, under the row number index + 2 (index counted from 0), and no other
\* row number is reported for a row that has an ASIN.
C31_EveryRowInOneList ==
  probe.called =>
     LET cells == probe.script
         res == probe.res
         blank == {x \in 1..Len(cells) : cells[x] \in {"absent", "", " "}}
         kept == {x \in 1..Len(cells) : (x - 1) + 2 \notin Range(res.errors)}
     IN /\ res.totalRows = Len(cells)
        /\ Len(res.valid) + Len(res.errors) = res.totalRows
        /\ Cardinality(Range(res.errors)) = Len(res.errors)
        /\ Range(res.errors) \subseteq {(x - 1) + 2 : x \in 1..Len(cells)}
        /\ \A x \in blank : (x - 1) + 2 \in Range(res.errors)
        /\ Len(res.valid) = Cardinality(kept)
        /\ \A x \in kept : cells[x] \in {"B1", " B1 ", "B2"}
        /\ \A v \in 1..Len(res.valid) : res.valid[v].asin # 0

\* a file whose first data row has no ASIN and whose second has one was parsed
C31_Witness ==
  /\ probe.called
  /\ Len(probe.script) >= 2
  /\ probe.script[1] = " "
  /\ probe.script[2] = "B2"
  /\ probe.res.errors = <<2>>
  /\ Len(probe.res.valid) = Len(probe.script) - 1
\* C32: rows rejected by the parser never abort an import.  A task that ended without an
\* exception leaves its record, unless it expired, completed; and the summary of every
\* completed record lists the first 50 errors at most, in order, counts all of them in
\* failed_rows, and, when there is at least one, the whole list is in the error file
\* that the ImportFile row refers to.
C32_RowErrorsNeverAbort ==
  \A m \in Uploads :
     LET errors == errorsOf(m)
         summary == impRec[m].summary
         shown == IF Len(errors) < 50 THEN Len(errors) ELSE 50
     IN /\ imp[m].pc = "ended" /\ ~imp[m].threw /\ impRec[m].status # "absent" =>
              impRec[m].status = "completed"
        /\ impRec[m].status = "completed" =>
              /\ summary.present
              /\ Len(summary.errors) = shown
              /\ \A x \in 1..shown : summary.errors[x] = errors[x]
              /\ summary.failed_rows = Len(errors)
              /\ summary.hasErrors = (Len(errors) > 0)
              /\ importFile[m].failed_rows = Len(errors)
              /\ Len(errors) > 0 =>
                    /\ [import |-> m, errors |-> errors] \in errorFiles
                    /\ importFile[m].error_file

\* the import of a file with 51 rejected rows completed: 50 of them are in the summary
C32_Witness ==
  \E m \in Uploads :
     /\ impRec[m].status = "completed"
     /\ impRec[m].summary.failed_rows = 51
     /\ Len(impRec[m].summary.errors) = 50
     /\ impRec[m].summary.inserted_rows + impRec[m].summary.updated_rows = 1
     /\ hasErrorFile(m)
\* C33: the counts reported for a completed import, in its progress record and in its
\* ImportFile row, are not negative, and inserted_rows + updated_rows + failed_rows is at
\* most total_rows, also when the file has the same identifier in several rows.
C33_CountsWithinTotal ==
  \A m \in Uploads :
     /\ impRec[m].status = "completed" =>
          LET summary == impRec[m].summary
          IN /\ summary.present
             /\ summary.inserted_rows >= 0
             /\ summary.updated_rows >= 0
             /\ summary.failed_rows >= 0
             /\ summary.inserted_rows + summary.updated_rows + summary.failed_rows
                   <= summary.total_rows
     /\ importFile[m].state = "summarised" =>
          /\ importFile[m].inserted_rows >= 0
          /\ importFile[m].updated_rows >= 0
          /\ importFile[m].failed_rows >= 0
          /\ importFile[m].inserted_rows + importFile[m].updated_rows
                + importFile[m].failed_rows <= importFile[m].total_rows

\* the import of a file that has one identifier in two rows completed, over a table
\* that already held that identifier
C33_Witness ==
  \E m \in Uploads :
     /\ impRec[m].status = "completed"
     /\ rowsOf(m) = BigFileTwice
     /\ impRec[m].summary.updated_rows = 2
     /\ impRec[m].summary.inserted_rows = IMPORT_BATCH_SIZE - 1
\* C34: the summary that getJobStatus returns for a running or completed job is counted
\* when the poll is answered, from the statuses stored at that moment for the items of
\* the job and for no other product; and such an answer always has a summary.
C34_SummaryAtReadTime ==
  [][(poll'.pc = "idle" /\ poll # poll' /\ poll'.res.kind \in {"status", "active"}) =>
        LET answer == poll'.res
            items == Range(jobData[poll.job])
            count(status) == Cardinality({a \in items : sellerStatus[a].status = status})
        IN answer.rec.status \in {"running", "completed"} =>
              /\ poll.pc = "summaryFind"
              /\ answer.summary.present
              /\ answer.summary.allowed = count("allowed")
              /\ answer.summary.gated = count("gated")
              /\ answer.summary.restricted = count("restricted")
              /\ answer.summary.unknown = count("unknown")]_vars

\* a poll of a running job of two items, both looked up since the job started, was
\* answered with a summary that counts the two and not the gated product outside the job
C34_Witness ==
  /\ poll.pc = "idle"
  /\ used.polls = 2
  /\ poll.res.kind = "status"
  /\ poll.res.rec.status = "running"
  /\ Len(jobData[1]) = 2
  /\ \E a \in product \ Range(jobData[1]) : sellerStatus[a].status = "gated"
  /\ poll.res.summary.gated = 0
  /\ poll.res.summary.allowed + poll.res.summary.restricted = 2
\* C35: the total and the item list of a job record are those written at creation: as
\* long as the record of a processing job exists, it holds the total and the asins that
\* startProcessing selected, and the record of an import holds the number of valid rows
\* that startCSVImport parsed, whatever progress updates and terminal transitions were
\* applied to it.
C35_TotalAndItemsFixed ==
  /\ \A j \in Jobs :
        jobRec[j].status # "absent" =>
           /\ jobRec[j].asins = jobData[j]
           /\ jobRec[j].total = Len(jobData[j])
  /\ \A m \in Uploads :
        impRec[m].status # "absent" => impRec[m].total = Len(validOf(m))

\* a job of several items is completed after progress updates
C35_Witness ==
  \E j \in Jobs :
     /\ jobRec[j].status = "completed"
     /\ jobRec[j].processed > 1
     /\ jobRec[j].total = ChunkProducts
     /\ Len(jobRec[j].asins) = ChunkProducts

\* an import of one valid row is completed after its progress update
C35_WitnessImport ==
  \E m \in Uploads :
     /\ impRec[m].status = "completed"
     /\ impRec[m].processed = 1
     /\ impRec[m].total = 1
\* C36: the processed value stored for an import of V valid rows never exceeds its total
\* V and is V once the status is completed; and every write that changes it is the
\* write after a batch, which raises it from 100 * (k - 1) to min(100 * k, V): the values
\* stored are 100, 200, ... and V, each once and in this order.
C36_ProgressAfterEveryBatch ==
  /\ [](\A m \in Uploads :
          impRec[m].status # "absent" =>
             /\ impRec[m].total = Len(validOf(m))
             /\ impRec[m].processed <= impRec[m].total
             /\ impRec[m].status = "completed" => impRec[m].processed = impRec[m].total)
  /\ [][\A m \in Uploads :
          (/\ impRec[m].status # "absent"
           /\ impRec'[m].status # "absent"
           /\ impRec'[m].processed # impRec[m].processed) =>
             LET V == impRec[m].total
                 next == impRec[m].processed + 100
             IN /\ imp[m].pc = "progressSet"
                /\ impRec[m].processed % 100 = 0
                /\ impRec[m].processed < V
                /\ impRec'[m].processed = IF next < V THEN next ELSE V]_vars

\* the import of 101 valid rows is completed: its second progress write stored 101
C36_Witness ==
  \E m \in Uploads :
     /\ impRec[m].status = "completed"
     /\ impRec[m].total = IMPORT_BATCH_SIZE + 1
     /\ impRec[m].processed = IMPORT_BATCH_SIZE + 1
     /\ imp[m].i = 2 * IMPORT_BATCH_SIZE
\* C37: the last command of a terminal transition of job X (the SETEX of the active-job
\* key by markJobCompleted, the DEL by markJobFailed and markJobCancelled) never changes
\* an active-job key that names another job Y whose record is running.
C37_TerminalLeavesOtherKey ==
  [][\A r \in 1..Len(runs) :
        (/\ runs[r].mk = "key"
         /\ runs'[r].mk = "done"
         /\ activeKey # 0
         /\ activeKey # runs[r].job
         /\ jobRec[activeKey].status = "running") => activeKey' = activeKey]_vars
\* C38: whenever a job record has status completed, its processed equals its total and
\* its percentage is 100.
C38_CompletedIsFull ==
  \A j \in Jobs :
     jobRec[j].status = "completed" =>
        /\ jobRec[j].processed = jobRec[j].total
        /\ jobRec[j].percentage = 100

\* C38, for the jobs none of whose attempts failed: whatever the order in which the
\* callbacks of a chunk finish, the completed record is full.
C38_CompletedIsFullFirstAttempt ==
  \A j \in Jobs :
     (/\ jobRec[j].status = "completed"
      /\ bull[j].attemptsMade = 0
      /\ \A r \in 1..Len(runs) : runs[r].job = j => runs[r].st # "failed") =>
        /\ jobRec[j].processed = jobRec[j].total
        /\ jobRec[j].percentage = 100
\* C39: when the enqueue step of startProcessing throws, after the running record and the
\* active-job key were written, no job is left with status running holding the key.
C39_FailedStartLeavesNoJob ==
  \A c \in Jobs :
     pc[c] = "enqueueFailed" => ~(jobRec[c].status = "running" /\ activeKey = c)

\* C39, the consequence: no start call is rejected with the conflict error because of a
\* job whose enqueue step threw.
C39_NoConflictWithUnqueuedJob ==
  \A c \in Jobs : pc[c] = "conflict" => pc[seen[c]] # "enqueueFailed"
\* C40: a progress update or a terminal transition whose read finds no record for the
\* job id is a no-op: the handler ends there, the records stay as they are (none is
\* recreated) and the active-job key is neither written nor deleted.
C40_AbsentRecordIsNoOp ==
  [][/\ \A r \in 1..Len(runs) :
          /\ (/\ runs[r].mk = "get"
              /\ runs'[r].mk # "get"
              /\ jobRec[runs[r].job].status = "absent") =>
                 /\ runs'[r].mk = "done"
                 /\ jobRec' = jobRec
                 /\ activeKey' = activeKey
          /\ \A k \in Slots :
                (/\ runs[r].slots[k].pc = "get"
                 /\ runs'[r].slots[k].pc # "get"
                 /\ jobRec[runs[r].job].status = "absent") =>
                    /\ runs'[r].slots[k].pc \in {"done", "threw"}
                    /\ jobRec' = jobRec
                    /\ activeKey' = activeKey
     /\ \A m \in Uploads :
          (/\ imp[m].pc \in {"progressGet", "completeGet", "failGet"}
           /\ imp'[m].pc # imp[m].pc
           /\ impRec[m].status = "absent") =>
              /\ imp'[m].pc \notin {"progressSet", "completeSet", "failSet"}
              /\ imp'[m].snap = NoImp
              /\ impRec' = impRec]_vars

\* markJobCompleted ran for a job whose record had expired: there is no record, and the
\* key, which it did not re-arm, is the one startProcessing set
C40_Witness ==
  \E r \in 1..Len(runs) :
     /\ runs[r].st = "completed"
     /\ runs[r].mk = "done"
     /\ jobRec[runs[r].job].status = "absent"
     /\ activeKey = runs[r].job
     /\ runs[r].processed > 0
====
